---- MODULE Spec2Model ----
(***************************************************************************)
(* Model of the dok synchronisation core: the Planner (metadata diff),     *)
(* the Reconciler (batched, failure tolerant plan execution with a temp    *)
(* staging directory) and the Engine (one Reconciler run per target).      *)
(*                                                                         *)
(* Strings that the code composes or splits (providerId, sourceId,         *)
(* DocumentId) are sequences of one-character strings, so that             *)
(* getDocumentId really concatenates.                                      *)
(***************************************************************************)
EXTENDS Naturals, Integers, Sequences, FiniteSets, Bags, TLC

\* ------------------------------------------------------------------ bounds
MaxPlanLen == 2      \* longest source list handed to the Planner spec
MaxTargetLen == 3    \* longest target list handed to the Planner spec
MaxJobs == 3

\* longest providerId and sourceId the DocumentId specification composes
MaxIdLen == 3         \* most jobs a configuration file holds in the app spec
MaxSrc == 6          \* most documents a source listing holds in the run spec
NumTargets == 2      \* targets configured for one Engine

\* ------------------------------------------------------- program constants
batchSize == 5

\* ------------------------------------------------------------- data model
\* DocumentMetadata (fileExtension left out: no modelled code reads it)
Doc(p, s, t, lm) == [providerId |-> p, sourceId |-> s, title |-> t, lastModified |-> lm]

\* getDocumentId: `${providerId}:${sourceId}`
getDocumentId(metadata) == metadata.providerId \o <<":">> \o metadata.sourceId

\* id.split(":"): the pieces between the separators, in order; one piece
\* more than there are separators
RECURSIVE Split(_, _)
Split(str, piece) ==
    IF str = <<>> THEN <<piece>>
    ELSE IF Head(str) = ":" THEN <<piece>> \o Split(Tail(str), <<>>)
    ELSE Split(Tail(str), Append(piece, Head(str)))

\* parts.join(":")
RECURSIVE Join(_)
Join(parts) ==
    IF parts = <<>> THEN <<>>
    ELSE IF Len(parts) = 1 THEN parts[1]
    ELSE parts[1] \o <<":">> \o Join(Tail(parts))

NoParse == [providerId |-> <<>>, sourceId |-> <<>>]

\* a parse that takes the second piece as the sourceId:
\* const [providerId, sourceId] = id.split(":")
parseDocumentIdSecondPiece(id) ==
    LET parts == Split(id, <<>>)
    IN [providerId |-> parts[1],
        sourceId |-> IF Len(parts) >= 2 THEN parts[2] ELSE <<>>]

\* parseDocumentId: const [providerId, ...sourceIdParts] = id.split(":")
parseDocumentId(id) ==
    LET parts == Split(id, <<>>)
    IN [providerId |-> Head(parts), sourceId |-> Join(Tail(parts))]

\* SyncOperation
Op(type, metadata, reason) == [type |-> type, documentMetadata |-> metadata, reason |-> reason]

\* ----------------------------------------------- JavaScript Map (ordered)
\* A Map is a sequence of <<key, value>> pairs with distinct keys, in
\* insertion order.
MapHas(m, k) == \E i \in 1..Len(m) : m[i][1] = k

MapGet(m, k) == m[CHOOSE i \in 1..Len(m) : m[i][1] = k][2]

\* Map.set: an existing key keeps its position and takes the new value
MapSet(m, k, v) ==
    IF MapHas(m, k)
    THEN [i \in 1..Len(m) |-> IF m[i][1] = k THEN <<k, v>> ELSE m[i]]
    ELSE Append(m, <<k, v>>)

\* a delete that leaves the map as it was
MapDeleteKeeps(m, k) == m

\* Map.delete
MapDelete(m, k) == SelectSeq(m, LAMBDA e : e[1] # k)

\* ------------------------------------------------------------------ Planner
RECURSIVE BuildTargetMap(_, _)
\* for (const target of targetMetadata) targetMap.set(getDocumentId(target), target)
BuildTargetMap(targetMetadata, m) ==
    IF targetMetadata = <<>> THEN m
    ELSE BuildTargetMap(Tail(targetMetadata),
                        MapSet(m, getDocumentId(Head(targetMetadata)), Head(targetMetadata)))

\* a source loop that takes any target with the same sourceId for the match
SourceOperationBySourceId(source, targetMap) ==
    IF \A i \in 1..Len(targetMap) : targetMap[i][2].sourceId # source.sourceId
    THEN Op("create", source, "Document does not exist in target")
    ELSE Op("skip", source, "Document is up to date")

\* a source loop that also updates on equal timestamps
SourceOperationNewerOrEqual(source, targetMap) ==
    IF ~MapHas(targetMap, getDocumentId(source))
    THEN Op("create", source, "Document does not exist in target")
    ELSE IF source.lastModified >= MapGet(targetMap, getDocumentId(source)).lastModified
    THEN Op("update", source,
            <<"Source modified at", source.lastModified,
              "is newer than target modified at",
              MapGet(targetMap, getDocumentId(source)).lastModified>>)
    ELSE Op("skip", source, "Document is up to date")

\* the operation the source loop pushes for one source document
SourceOperation(source, targetMap) ==
    IF ~MapHas(targetMap, getDocumentId(source))
    THEN Op("create", source, "Document does not exist in target")
    ELSE IF source.lastModified > MapGet(targetMap, getDocumentId(source)).lastModified
    THEN Op("update", source,
            <<"Source modified at", source.lastModified,
              "is newer than target modified at",
              MapGet(targetMap, getDocumentId(source)).lastModified>>)
    ELSE Op("skip", source, "Document is up to date")

\* a source loop without the "mark as processed" delete
RECURSIVE SourceLoopWithoutMark(_, _, _)
SourceLoopWithoutMark(sourceMetadata, targetMap, operations) ==
    IF sourceMetadata = <<>> THEN <<operations, targetMap>>
    ELSE SourceLoopWithoutMark(Tail(sourceMetadata), targetMap,
                               Append(operations, SourceOperation(Head(sourceMetadata), targetMap)))

RECURSIVE SourceLoop(_, _, _)
\* for (const source of sourceMetadata) { push; targetMap.delete(id) }
\* returns <<operations, targetMap>>
SourceLoop(sourceMetadata, targetMap, operations) ==
    IF sourceMetadata = <<>> THEN <<operations, targetMap>>
    ELSE SourceLoop(Tail(sourceMetadata),
                    MapDelete(targetMap, getDocumentId(Head(sourceMetadata))),
                    Append(operations, SourceOperation(Head(sourceMetadata), targetMap)))

\* a delete loop that walks the map backwards
DeleteOperationsReversed(targetMap) ==
    [i \in 1..Len(targetMap) |->
        Op("delete", targetMap[Len(targetMap) + 1 - i][2],
           "Document no longer exists in source")]

\* for (const [_, target] of targetMap) push delete
DeleteOperations(targetMap) ==
    [i \in 1..Len(targetMap) |->
        Op("delete", targetMap[i][2], "Document no longer exists in source")]

CountType(operations, type) == Len(SelectSeq(operations, LAMBDA op : op.type = type))

\* a summary whose skip count filters on the delete type
SummaryDeleteAsSkip(operations) ==
    [total |-> Len(operations),
     create |-> CountType(operations, "create"),
     update |-> CountType(operations, "update"),
     delete |-> CountType(operations, "delete"),
     skip |-> CountType(operations, "delete")]

Summary(operations) ==
    [total |-> Len(operations),
     create |-> CountType(operations, "create"),
     update |-> CountType(operations, "update"),
     delete |-> CountType(operations, "delete"),
     skip |-> CountType(operations, "skip")]

PlanOperations(sourceMetadata, targetMetadata) ==
    LET r == SourceLoop(sourceMetadata, BuildTargetMap(targetMetadata, <<>>), <<>>)
    IN r[1] \o DeleteOperations(r[2])

\* Planner.plan
Plan(sourceMetadata, targetMetadata) ==
    LET operations == PlanOperations(sourceMetadata, targetMetadata)
    IN [operations |-> operations, summary |-> Summary(operations)]

EmptyPlan == [operations |-> <<>>, summary |-> Summary(<<>>)]

\* ---------------------------------------------------------------- variables
VARIABLES
    pSource,      \* Planner spec: the sourceMetadata argument
    pTarget,      \* Planner spec: the targetMetadata argument
    pPlan,        \* Planner spec: the returned SyncPlan
    ppc,          \* Planner spec: "call" before plan() runs, "done" after
    \* --- getDocumentId / parseDocumentId
    dProviderId,  \* DocumentId spec: metadata.providerId
    dSourceId,    \* DocumentId spec: metadata.sourceId
    dId,          \* DocumentId spec: what getDocumentId returned
    dParsed,      \* DocumentId spec: what parseDocumentId returned
    dpc,          \* DocumentId spec: "call", "composed", "parsed"
    \* --- the CLI's run command and runApp
    optionsJob,   \* options.job: 0 when --job is not given, else the job's name
    configJobs,   \* number of jobs in the configuration: their names are 1..configJobs
    jobsToRun,    \* let jobsToRun
    jobIdx,       \* place of the for-loop in jobsToRun
    jobResult,    \* per entry of jobsToRun: how its iteration ended
    apc,          \* position of the run command
    exitCode,     \* exit code of the process, -1 while it runs
    errorLog,     \* what console.error and logger.error have written
    \* --- configuration of a run
    driver,                 \* "Engine": app builds an Engine and runs it;
                            \* "Reconciler": a caller runs one Reconciler directly
    dryRun,                 \* options.dryRun
    sourceProviderConfigs,  \* the source configs, in order: [providerId, provider]
    sourceListing,          \* what the source system lists when asked
    hung,                   \* the connector call that never settles: <<operation, call>>
    targetStore,            \* per target: the documents the target system holds
    \* --- Engine.run
    epc,                    \* position of Engine.run
    fetchI,                 \* fetchSourceMetadata: the connector being listed
    draining,               \* fetchSourceMetadata: inside the for await of that connector
    yielded,                \* fetchSourceMetadata: how many documents the for await has taken
    allMetadata,            \* fetchSourceMetadata: const allMetadata
    tIdx,                   \* index of the target the for-loop is at
    sourceMetadata,         \* const sourceMetadata
    targetMetadata,         \* const targetMetadata of the current iteration
    targetPhase,            \* per target: how far Engine.run got with it
    eError,                 \* the error Engine.run rejected with
    \* --- Reconciler.execute
    rpc,                    \* position of Reconciler.execute
    rTarget,                \* the target this Reconciler was built for
    plan,                   \* the plan argument
    sourceProviders,        \* providerIds of the sourceProviders Map of execute
    group,                  \* operation type group being processed
    batchI,                 \* loop variable i of processOperationsBatch
    groupErrors,            \* errors array local to processOperationsBatch
    errors,                 \* errors array of execute
    opStatus,               \* per plan operation: state of its processOperation promise
    opError,                \* per plan operation: message it rejected with
    started,                \* per plan operation: number of processOperation calls
    opCalls,                \* per plan operation: connector methods called for it
    rError,                 \* the error execute rejects with
    \* --- file system
    dirs,                   \* temp directories that exist
    files,                  \* staged files that exist: <<dir, name>>
    nextDir,                \* next unused mkdtemp name
    tempDir,                \* tempDir of the TempFileManagerImpl of this execute
    \* --- DifyProvider
    difyCall                \* the last call on the Dify connector and how it went

pvars == <<pSource, pTarget, pPlan, ppc>>
dvars == <<dProviderId, dSourceId, dId, dParsed, dpc>>
yvars == <<difyCall>>
avars == <<optionsJob, configJobs, jobsToRun, jobIdx, jobResult, apc, exitCode, errorLog>>
cvars == <<driver, dryRun, sourceProviderConfigs, sourceListing, hung>>
evars == <<epc, fetchI, draining, yielded, allMetadata, tIdx, sourceMetadata, targetMetadata, targetPhase, eError>>
rvars == <<rpc, rTarget, plan, sourceProviders, group, batchI, groupErrors, errors,
           opStatus, opError, started, opCalls, rError>>
fvars == <<dirs, files, nextDir, tempDir>>

vars == <<pvars, dvars, yvars, avars, cvars, targetStore, evars, rvars, fvars>>

\* every connector call settles
NoHang == <<0, "none">>

\* ------------------------------------------------------------ error values
NoError == [kind |-> "none", provider |-> "", entries |-> <<>>]
\* new Error(`Provider constructor not found: ${providerConfig.provider}`)
ConstructorNotFound(provider) == [kind |-> "constructor", provider |-> provider, entries |-> <<>>]
\* new Error(`Reconciliation partially failed with ${n} errors:\n${errorSummary}`)
AggregateError(entries) == [kind |-> "aggregate", provider |-> "", entries |-> entries]
\* a rejected metadata listing
ListingError == [kind |-> "listing", provider |-> "", entries |-> <<>>]

\* ------------------------------------------------ values of an idle system
PlannerIdle ==
    /\ pSource = <<>>
    /\ pTarget = <<>>
    /\ pPlan = EmptyPlan
    /\ ppc = "off"

DocIdOff ==
    /\ dProviderId = <<>>
    /\ dSourceId = <<>>
    /\ dId = <<>>
    /\ dParsed = NoParse
    /\ dpc = "off"

\* no call has been made on the Dify connector
NoCall ==
    [method |-> "none", documentId |-> <<>>, lookup |-> "none", outcome |-> "none",
     before |-> EmptyBag]

DifyOff == difyCall = NoCall

AppOff ==
    /\ optionsJob = 0
    /\ configJobs = 0
    /\ jobsToRun = <<>>
    /\ jobIdx = 0
    /\ jobResult = <<>>
    /\ apc = "off"
    /\ exitCode = -1
    /\ errorLog = <<>>

ReconcilerIdle ==
    /\ rpc = "idle"
    /\ rTarget = 0
    /\ plan = EmptyPlan
    /\ sourceProviders = {}
    /\ group = "create"
    /\ batchI = 0
    /\ groupErrors = <<>>
    /\ errors = <<>>
    /\ opStatus = <<>>
    /\ opError = <<>>
    /\ started = <<>>
    /\ opCalls = <<>>
    /\ rError = NoError

RunOff ==
    /\ driver = "none"
    /\ dryRun = FALSE
    /\ sourceProviderConfigs = <<>>
    /\ sourceListing = <<>>
    /\ hung = NoHang
    /\ targetStore = [t \in 1..NumTargets |-> EmptyBag]
    /\ epc = "off"
    /\ fetchI = 0
    /\ draining = FALSE
    /\ yielded = 0
    /\ allMetadata = <<>>
    /\ tIdx = 0
    /\ sourceMetadata = <<>>
    /\ targetMetadata = <<>>
    /\ targetPhase = [t \in 1..NumTargets |-> "untouched"]
    /\ eError = NoError
    /\ ReconcilerIdle
    /\ dirs = {}
    /\ files = {}
    /\ nextDir = 1
    /\ tempDir = 0


\* ------------------------------------------------ environment of a run
\* providerConstructors: the provider kinds that have a constructor
providerConstructors == {"notion"}

\* SourceProviderConfig; config stands for the connector's settings (for
\* Notion the apiKey and databaseId), told apart by a number
Config(providerId, provider, config) ==
    [providerId |-> providerId, provider |-> provider, config |-> config]

NotionId == <<"n">>

\* configurations a run is started with: no source, one Notion source, two
\* Notion sources under the one providerId app.ts gives them (Engine), and
\* (only when a Reconciler is built directly: the Engine constructor throws
\* on it) one source of a kind without a constructor
ConfigChoices(d) ==
    {<<>>, <<Config(NotionId, "notion", 1)>>}
        \cup (IF d = "Reconciler"
              THEN {<<Config(NotionId, "gdrive", 1)>>}
              ELSE {<<Config(NotionId, "notion", 1), Config(NotionId, "notion", 2)>>})

Digits == <<"1", "2", "3", "4", "5", "6", "7", "8", "9">>

SourceDoc(i) == Doc(NotionId, <<Digits[i]>>, "S", 2)
TargetDoc(i, lm) == Doc(NotionId, <<Digits[i]>>, "T", lm)

\* a listing whose first document carries a providerId no config registers
ForeignListing == <<Doc(<<"g">>, <<"1">>, "S", 2), SourceDoc(1), SourceDoc(2)>>

\* what the first source system lists: nothing, one or two documents, more
\* documents than a batch takes, or the listing with the foreign document
SourceListings ==
    {[i \in 1..n |-> SourceDoc(i)] : n \in {0, 1, 2, MaxSrc}} \cup {ForeignListing}

\* what a second source system lists: a document the first may list too,
\* and one of its own
SecondListing == <<SourceDoc(1), SourceDoc(9)>>

\* the configurations and first listings a run is started with; under two
\* sources the first lists at most one document, and an Engine without a
\* source has no source system to list
Scenarios(d) ==
    {sc \in ConfigChoices(d) \X SourceListings :
        /\ Len(sc[1]) >= 2 => Len(sc[2]) <= 1
        /\ (d = "Engine" /\ sc[1] = <<>>) => sc[2] = <<>>}

\* listings a target answers with: nothing; a stale, an up to date and an
\* orphaned document; stale copies of the first MaxSrc documents
TargetListings ==
    {<<>>,
     <<TargetDoc(2, 1), TargetDoc(3, 2), TargetDoc(9, 1)>>,
     [i \in 1..MaxSrc |-> TargetDoc(i, 1)]}

\* this.sourceProviderConfigs of Engine and Reconciler: a Map keyed by providerId
RECURSIVE ConfigMap(_, _)
ConfigMap(configs, m) ==
    IF configs = <<>> THEN m
    ELSE ConfigMap(Tail(configs), MapSet(m, Head(configs).providerId, Head(configs)))

\* -------------------------------------------------------------- Fetcher
RECURSIVE Flatten(_)
Flatten(lists) == IF lists = <<>> THEN <<>> ELSE Head(lists) \o Flatten(Tail(lists))

\* provider.fetchDocumentsMetadata() of the i-th source connector
ConnectorListing(i, listing) == IF i = 1 THEN listing ELSE SecondListing

\* Fetcher.fetchSourceMetadata over the connectors the Engine constructor
\* built, one per config in config order
FetchSourceMetadata(configs, listing) ==
    Flatten([i \in 1..Len(configs) |-> ConnectorListing(i, listing)])

\* --------------------------------------------------------- target system
\* What a target holds is a bag of documents: the order in which the remote
\* lists them is the remote's business, and two documents may carry the
\* same metadata. Within a run a call on the target either goes through,
\* with its lookup and its metadata request answered, or rejects; the calls
\* of the Dify connector with the requests that may fail inside them are
\* the DifyProvider specification.
RECURSIVE BagOfSeq(_)
BagOfSeq(seq) == IF seq = <<>> THEN EmptyBag ELSE SetToBag({Head(seq)}) (+) BagOfSeq(Tail(seq))

\* a create that records a modification time of its own
StoreCreateStale(store, metadata) ==
    store (+) SetToBag({[metadata EXCEPT !.lastModified = 1]})

\* DifyProvider.createDocumentFromFile: a new document with the metadata
StoreCreate(store, metadata) == store (+) SetToBag({metadata})

\* DifyProvider.findDifyDocumentIdBySourceId: the documents whose source_id
\* matches; the provider takes the first the remote lists
WithSourceId(store, sourceId) == {d \in BagToSet(store) : d.sourceId = sourceId}

\* DifyProvider.findDifyDocumentId: some listed document has the DocumentId
StoreFinds(store, metadata) ==
    \E d \in BagToSet(store) : getDocumentId(d) = getDocumentId(metadata)

\* DifyProvider.updateDocumentFromFile: the document found takes the new metadata
StoreUpdate(store, old, metadata) == (store (-) SetToBag({old})) (+) SetToBag({metadata})

\* DifyProvider.deleteDocument: the document found goes
StoreDelete(store, old) == store (-) SetToBag({old})

RECURSIVE BagSeq(_)
\* DifyProvider.fetchDocumentsMetadata: the documents held, in the order the
\* remote pages them
BagSeq(store) ==
    IF BagToSet(store) = {} THEN <<>>
    ELSE LET d == CHOOSE x \in BagToSet(store) : TRUE
         IN <<d>> \o BagSeq(store (-) SetToBag({d}))

\* ------------------------------------------------------------ Reconciler
Operations == plan.operations
OpIds == 1..Len(Operations)

\* plan.operations.filter((op) => op.type === type), as plan indices in order
RECURSIVE FilterIndices(_, _, _)
FilterIndices(ops, type, i) ==
    IF i > Len(ops) THEN <<>>
    ELSE (IF ops[i].type = type THEN <<i>> ELSE <<>>) \o FilterIndices(ops, type, i + 1)

GroupOps(type) == FilterIndices(Operations, type, 1)

\* a slice that runs to the end of the list, whatever the batch size
SliceToEnd(seq, i) == [j \in 1..(Len(seq) - i) |-> seq[i + j]]

\* operations.slice(i, i + batchSize)
Slice(seq, i) ==
    [j \in 1..(IF Len(seq) - i < batchSize THEN Len(seq) - i ELSE batchSize) |-> seq[i + j]]

Batch == Slice(GroupOps(group), batchI)

InBatch(k) == \E j \in 1..Len(Batch) : Batch[j] = k

Settled(k) == opStatus[k] \in {"ok", "failed"}

InFlight(k) == opStatus[k] \in {"download", "target"}

\* a Reconciler that is always handed the first target connector
ExecuteStartFirstTarget(p, t) ==
    /\ plan' = p
    /\ rTarget' = 1
    /\ tempDir' = nextDir
    /\ dirs' = dirs \cup {nextDir}
    /\ nextDir' = nextDir + 1
    /\ errors' = <<>>
    /\ groupErrors' = <<>>
    /\ sourceProviders' = {}
    /\ group' = "create"
    /\ batchI' = 0
    /\ opStatus' = [k \in 1..Len(p.operations) |-> "pending"]
    /\ opError' = [k \in 1..Len(p.operations) |-> ""]
    /\ started' = [k \in 1..Len(p.operations) |-> 0]
    /\ opCalls' = [k \in 1..Len(p.operations) |-> <<>>]
    /\ rError' = NoError
    /\ rpc' = "providers"
    /\ UNCHANGED files

\* new TempFileManagerImpl() and the errors array: the first lines of execute
ExecuteStart(p, t) ==
    /\ plan' = p
    /\ rTarget' = t
    /\ tempDir' = nextDir
    /\ dirs' = dirs \cup {nextDir}
    /\ nextDir' = nextDir + 1
    /\ errors' = <<>>
    /\ groupErrors' = <<>>
    /\ sourceProviders' = {}
    /\ group' = "create"
    /\ batchI' = 0
    /\ opStatus' = [k \in 1..Len(p.operations) |-> "pending"]
    /\ opError' = [k \in 1..Len(p.operations) |-> ""]
    /\ started' = [k \in 1..Len(p.operations) |-> 0]
    /\ opCalls' = [k \in 1..Len(p.operations) |-> <<>>]
    /\ rError' = NoError
    /\ rpc' = "providers"
    /\ UNCHANGED files

\* a caller builds a Reconciler for target 1 and calls execute with a plan
ReconcilerCall ==
    /\ driver = "Reconciler"
    /\ rpc = "idle"
    /\ \E listing \in TargetListings :
        /\ targetStore' = [targetStore EXCEPT ![1] = BagOfSeq(listing)]
        /\ ExecuteStart(Plan(sourceListing, listing), 1)
    /\ UNCHANGED <<pvars, dvars, yvars, avars, cvars, evars>>

\* kinds of the configs in Map order that have no constructor
MissingConstructors ==
    SelectSeq(ConfigMap(sourceProviderConfigs, <<>>),
              LAMBDA e : e[2].provider \notin providerConstructors)

\* the settings the Engine constructor builds its i-th listing connector
\* with: new ProviderConstructor(config.config, tempFileManager) per config
ListingConnectorConfig(i) == sourceProviderConfigs[i].config

\* the settings execute builds the connector for a providerId with: the
\* entry this.sourceProviderConfigs, a Map keyed by providerId, holds for it
DownloadConnectorConfig(providerId) ==
    MapGet(ConfigMap(sourceProviderConfigs, <<>>), providerId).config

\* the provider loop of execute finds every constructor
CreateProviders ==
    /\ rpc = "providers"
    /\ MissingConstructors = <<>>
    /\ sourceProviders' =
         {sourceProviderConfigs[i].providerId : i \in 1..Len(sourceProviderConfigs)}
    /\ rpc' = "group"
    /\ UNCHANGED <<pvars, dvars, yvars, avars, cvars, targetStore, evars, fvars, rTarget, plan, group, batchI,
                   groupErrors, errors, opStatus, opError, started, opCalls, rError>>

\* a provider loop that passes over a kind without a constructor
CreateProvidersSkipMissing ==
    /\ rpc = "providers"
    /\ MissingConstructors # <<>>
    /\ sourceProviders' = {}
    /\ rpc' = "group"
    /\ UNCHANGED <<pvars, dvars, yvars, avars, cvars, targetStore, evars, fvars, rTarget, plan, group, batchI,
                   groupErrors, errors, opStatus, opError, started, opCalls, rError>>

\* the provider loop of execute throws at the first kind without a constructor
CreateProvidersThrow ==
    /\ rpc = "providers"
    /\ MissingConstructors # <<>>
    /\ rError' = ConstructorNotFound(MissingConstructors[1][2].provider)
    /\ rpc' = "cleanup"
    /\ UNCHANGED <<pvars, dvars, yvars, avars, cvars, targetStore, evars, fvars, rTarget, plan, sourceProviders,
                   group, batchI, groupErrors, errors, opStatus, opError, started, opCalls>>

\* a switch whose delete case falls into the download branch as well
NeedsSourceOrDelete(k) == Operations[k].type \in {"create", "update", "delete"}

\* case "create": case "update": the branch that downloads from the source
NeedsSource(k) == Operations[k].type \in {"create", "update"}

HasProvider(k) == Operations[k].documentMetadata.providerId \in sourceProviders

\* a processOperation without the dry-run return
DryRunNeverReturns == FALSE

\* if (this.dryRun) return
DryRunReturn == dryRun

\* processOperation that looks the source provider up before the dry-run return
StartStatusLookupFirst(k) ==
    IF NeedsSource(k) /\ ~HasProvider(k) THEN "failed"
    ELSE IF DryRunReturn THEN "ok"
    ELSE IF NeedsSource(k) THEN "download"
    ELSE "target"

\* a batch that is refused as a whole when one of its operations has no
\* source provider
StartStatusBatchLookup(k) ==
    IF DryRunReturn THEN "ok"
    ELSE IF \E k2 \in OpIds : InBatch(k2) /\ NeedsSource(k2) /\ ~HasProvider(k2) THEN "failed"
    ELSE IF NeedsSource(k) THEN "download"
    ELSE "target"

\* processOperation up to its first await
StartStatus(k) ==
    IF DryRunReturn THEN "ok"
    ELSE IF NeedsSource(k) /\ ~HasProvider(k) THEN "failed"
    ELSE IF NeedsSource(k) THEN "download"
    ELSE "target"

StartError(k) ==
    IF ~DryRunReturn /\ NeedsSource(k) /\ ~HasProvider(k) THEN "Source provider not found" ELSE ""

StartCalls(k) ==
    IF DryRunReturn \/ (NeedsSource(k) /\ ~HasProvider(k)) THEN <<>>
    ELSE IF NeedsSource(k)
    THEN <<<<"downloadDocumentContent", getDocumentId(Operations[k].documentMetadata)>>>>
    ELSE <<<<"deleteDocument", getDocumentId(Operations[k].documentMetadata)>>>>

\* one iteration of the batch loop up to await Promise.allSettled:
\* batch.map(processOperation) starts every operation of the slice
StartBatch ==
    /\ rpc = "group"
    /\ batchI < Len(GroupOps(group))
    /\ opStatus' = [k \in OpIds |-> IF InBatch(k) THEN StartStatus(k) ELSE opStatus[k]]
    /\ opError' = [k \in OpIds |-> IF InBatch(k) THEN StartError(k) ELSE opError[k]]
    /\ opCalls' = [k \in OpIds |-> IF InBatch(k) THEN opCalls[k] \o StartCalls(k) ELSE opCalls[k]]
    /\ started' = [k \in OpIds |-> IF InBatch(k) THEN started[k] + 1 ELSE started[k]]
    /\ rpc' = "batch"
    /\ UNCHANGED <<pvars, dvars, yvars, avars, cvars, targetStore, evars, fvars, rTarget, plan, sourceProviders,
                   group, batchI, groupErrors, errors, rError>>

\* a source connector that stages through the TempFileManagerImpl of the
\* Engine (directory 1) instead of the one execute made
StagedFileInEngineDir(dir, metadata) == <<1, getDocumentId(metadata)>>

\* TempFileManagerImpl.createTempFile: join(tempDir, `${hash}.${ext}`); the
\* sha256 of the DocumentId is modelled as the DocumentId itself
StagedFile(dir, metadata) == <<dir, getDocumentId(metadata)>>

\* documentId.replace(`${this.providerId}:`, ""): the first occurrence of
\* the pattern is taken out
RECURSIVE RemoveFirst(_, _)
RemoveFirst(str, pattern) ==
    IF Len(str) < Len(pattern) THEN str
    ELSE IF SubSeq(str, 1, Len(pattern)) = pattern THEN SubSeq(str, Len(pattern) + 1, Len(str))
    ELSE <<Head(str)>> \o RemoveFirst(Tail(str), pattern)

\* NotionProvider.downloadDocumentContent: the page id is cut out of the
\* DocumentId, the metadata is rebuilt around it and the content is staged
\* under it; the returned value is the staged path
downloadDocumentContent(providerId, dir, documentId) ==
    StagedFile(dir, [providerId |-> providerId,
                     sourceId |-> RemoveFirst(documentId, providerId \o <<":">>)])

\* const tempFilePath = await sourceProvider.downloadDocumentContent(
\*     getDocumentId(operation.documentMetadata))
TempFilePath(k) ==
    downloadDocumentContent(Operations[k].documentMetadata.providerId, tempDir,
                            getDocumentId(Operations[k].documentMetadata))

\* a processOperation whose switch sends every staged file to the update method
TargetCallUpdateOnly(k, tempFilePath) ==
    <<"updateDocumentFromFile", Operations[k].documentMetadata, tempFilePath>>

\* the create and update cases of the switch: the target method, called
\* with the operation's metadata and the returned path
TargetCall(k, tempFilePath) ==
    <<IF Operations[k].type = "create" THEN "createDocumentFromFile" ELSE "updateDocumentFromFile",
      Operations[k].documentMetadata,
      tempFilePath>>

\* downloadDocumentContent resolves with the staged path; the target
\* connector is called with it
DownloadResolve(k) ==
    /\ rpc = "batch"
    /\ opStatus[k] = "download"
    /\ hung # <<k, "download">>
    /\ files' = files \cup {TempFilePath(k)}
    /\ opCalls' = [opCalls EXCEPT ![k] = Append(@, TargetCall(k, TempFilePath(k)))]
    /\ opStatus' = [opStatus EXCEPT ![k] = "target"]
    /\ UNCHANGED <<pvars, dvars, yvars, avars, cvars, targetStore, evars, dirs, nextDir, tempDir, rpc, rTarget, plan,
                   sourceProviders, group, batchI, groupErrors, errors, opError, started, rError>>

\* a processOperation that goes on to the target after a rejected download
DownloadRejectCallsTarget(k) ==
    /\ rpc = "batch"
    /\ opStatus[k] = "download"
    /\ hung # <<k, "download">>
    /\ opStatus' = [opStatus EXCEPT ![k] = "failed"]
    /\ opError' = [opError EXCEPT ![k] = "download failed"]
    /\ opCalls' = [opCalls EXCEPT ![k] = Append(@, TargetCall(k, TempFilePath(k)))]
    /\ UNCHANGED <<pvars, dvars, yvars, avars, cvars, targetStore, evars, fvars, rpc, rTarget, plan, sourceProviders,
                   group, batchI, groupErrors, errors, started, rError>>

\* downloadDocumentContent rejects
DownloadReject(k) ==
    /\ rpc = "batch"
    /\ opStatus[k] = "download"
    /\ hung # <<k, "download">>
    /\ opStatus' = [opStatus EXCEPT ![k] = "failed"]
    /\ opError' = [opError EXCEPT ![k] = "download failed"]
    /\ UNCHANGED <<pvars, dvars, yvars, avars, cvars, targetStore, evars, fvars, rpc, rTarget, plan, sourceProviders,
                   group, batchI, groupErrors, errors, started, opCalls, rError>>

\* what the target may hold once the call for an operation has gone through
StoresAfter(store, op) ==
    IF op.type = "create" THEN {StoreCreate(store, op.documentMetadata)}
    ELSE IF op.type = "update"
    THEN {StoreUpdate(store, old, op.documentMetadata) :
            old \in WithSourceId(store, op.documentMetadata.sourceId)}
    ELSE IF WithSourceId(store, op.documentMetadata.sourceId) = {} THEN {store}
    ELSE {StoreDelete(store, old) : old \in WithSourceId(store, op.documentMetadata.sourceId)}

\* the create / update / delete call on the target connector resolves
TargetResolve(k) ==
    /\ rpc = "batch"
    /\ opStatus[k] = "target"
    /\ hung # <<k, "target">>
    /\ Operations[k].type = "update" => StoreFinds(targetStore[rTarget], Operations[k].documentMetadata)
    /\ \E after \in StoresAfter(targetStore[rTarget], Operations[k]) :
        targetStore' = [targetStore EXCEPT ![rTarget] = after]
    /\ opStatus' = [opStatus EXCEPT ![k] = "ok"]
    /\ UNCHANGED <<pvars, dvars, yvars, avars, cvars, evars, fvars, rpc, rTarget, plan, sourceProviders, group, batchI,
                   groupErrors, errors, opError, started, opCalls, rError>>

\* the create / update / delete call on the target connector rejects
TargetReject(k) ==
    /\ rpc = "batch"
    /\ opStatus[k] = "target"
    /\ hung # <<k, "target">>
    /\ opStatus' = [opStatus EXCEPT ![k] = "failed"]
    /\ opError' = [opError EXCEPT ![k] = "target failed"]
    /\ UNCHANGED <<pvars, dvars, yvars, avars, cvars, targetStore, evars, fvars, rpc, rTarget, plan, sourceProviders,
                   group, batchI, groupErrors, errors, started, opCalls, rError>>

RECURSIVE BatchErrors(_, _)

\* a collection loop that stops at the first rejected result
FirstBatchError(batch, j) ==
    LET rejected == {x \in j..Len(batch) : opStatus[batch[x]] = "failed"}
        first == CHOOSE x \in rejected : \A y \in rejected : x <= y
    IN IF rejected = {} THEN <<>>
       ELSE <<[operation |-> batch[first], error |-> opError[batch[first]]]>>

\* the rejected results of the batch, in batch order: {operation, error}
BatchErrors(batch, j) ==
    IF j > Len(batch) THEN <<>>
    ELSE (IF opStatus[batch[j]] = "failed"
          THEN <<[operation |-> batch[j], error |-> opError[batch[j]]]>>
          ELSE <<>>) \o BatchErrors(batch, j + 1)

\* a wait that ends as soon as one promise of the batch has settled
AnySettled(batch) == \E j \in 1..Len(batch) : Settled(batch[j])

\* a Promise.all in place of allSettled: the wait ends at the first rejection
AllSettledOrOneRejected(batch) ==
    \/ \A j \in 1..Len(batch) : Settled(batch[j])
    \/ \E j \in 1..Len(batch) : opStatus[batch[j]] = "failed"

\* a wait that gives every batch a deadline and goes on when it has passed
AllSettledOrTimedOut(batch) == TRUE

\* await Promise.allSettled(batchPromises)
AllSettled(batch) == \A j \in 1..Len(batch) : Settled(batch[j])

\* Promise.allSettled resolves: collect the errors, then either wait
\* 100ms before the next slice or leave the loop
BatchSettled ==
    /\ rpc = "batch"
    /\ AllSettled(Batch)
    /\ groupErrors' = groupErrors \o BatchErrors(Batch, 1)
    /\ batchI' = batchI + batchSize
    /\ rpc' = IF batchI + batchSize < Len(GroupOps(group)) THEN "delay" ELSE "group"
    /\ UNCHANGED <<pvars, dvars, yvars, avars, cvars, targetStore, evars, fvars, rTarget, plan, sourceProviders, group,
                   errors, opStatus, opError, started, opCalls, rError>>

\* the timer between two batches fires
BatchDelay ==
    /\ rpc = "delay"
    /\ rpc' = "group"
    /\ UNCHANGED <<pvars, dvars, yvars, avars, cvars, targetStore, evars, fvars, rTarget, plan, sourceProviders, group,
                   batchI, groupErrors, errors, opStatus, opError, started, opCalls, rError>>

\* an execute that has no block for the update group
NextGroupSkipsUpdate(g) == IF g = "create" THEN "delete" ELSE "end"

\* an execute whose update block comes after its delete block
NextGroupOfUpdateLast(g) ==
    IF g = "create" THEN "delete" ELSE IF g = "delete" THEN "update" ELSE "end"

\* an execute that hands the skip operations to processOperationsBatch too
NextGroupOfWithSkip(g) ==
    IF g = "create" THEN "update"
    ELSE IF g = "update" THEN "delete"
    ELSE IF g = "delete" THEN "skip"
    ELSE "end"

\* the order of the three group blocks of execute
NextGroupOf(g) == IF g = "create" THEN "update" ELSE IF g = "update" THEN "delete" ELSE "end"

\* processOperationsBatch returns (or the group is empty and is passed
\* over): errors.push(...groupErrors) and on to the next group
GroupDone ==
    /\ rpc = "group"
    /\ batchI >= Len(GroupOps(group))
    /\ errors' = errors \o groupErrors
    /\ groupErrors' = <<>>
    /\ batchI' = 0
    /\ group' = NextGroupOf(group)
    /\ rpc' = IF NextGroupOf(group) = "end" THEN "report" ELSE "group"
    /\ UNCHANGED <<pvars, dvars, yvars, avars, cvars, targetStore, evars, fvars, rTarget, plan, sourceProviders,
                   opStatus, opError, started, opCalls, rError>>

\* `${operation.type} ${getDocumentId(operation.documentMetadata)}: ${error.message}`
ErrorEntry(e) ==
    <<Operations[e.operation].type, getDocumentId(Operations[e.operation].documentMetadata), e.error>>

ErrorSummary(errs) == [j \in 1..Len(errs) |-> ErrorEntry(errs[j])]

\* an execute without the finally block: it returns or throws from the
\* report, and the staging directory stays
ReportWithoutFinally ==
    /\ rpc = "report"
    /\ rError' = IF Len(errors) > 0 THEN AggregateError(ErrorSummary(errors)) ELSE NoError
    /\ rpc' = IF Len(errors) > 0 THEN "thrown" ELSE "returned"
    /\ UNCHANGED <<pvars, dvars, yvars, avars, cvars, targetStore, evars, fvars, rTarget, plan, sourceProviders, group,
                   batchI, groupErrors, errors, opStatus, opError, started, opCalls>>

\* "Report results": throw the aggregated error or log success
Report ==
    /\ rpc = "report"
    /\ rError' = IF Len(errors) > 0 THEN AggregateError(ErrorSummary(errors)) ELSE NoError
    /\ rpc' = "cleanup"
    /\ UNCHANGED <<pvars, dvars, yvars, avars, cvars, targetStore, evars, fvars, rTarget, plan, sourceProviders, group,
                   batchI, groupErrors, errors, opStatus, opError, started, opCalls>>

\* an rm without {recursive}: a directory that holds files stays
RmNotRecursive(ds, fs, d) == IF \E f \in fs : f[1] = d THEN ds ELSE ds \ {d}

\* TempFileManagerImpl.cleanup: rm(this.tempDir, {recursive: true, force: true})
RmRecursive(ds, fs, d) == ds \ {d}

\* finally: await tempFileManager.cleanup(); then execute returns, or
\* rethrows what the try block threw
Cleanup ==
    /\ rpc = "cleanup"
    /\ dirs' = RmRecursive(dirs, files, tempDir)
    /\ files' = {f \in files : f[1] \in dirs'}
    /\ rpc' = IF rError = NoError THEN "returned" ELSE "thrown"
    /\ UNCHANGED <<pvars, dvars, yvars, avars, cvars, targetStore, evars, nextDir, tempDir, rTarget, plan,
                   sourceProviders, group, batchI, groupErrors, errors, opStatus, opError,
                   started, opCalls, rError>>

\* ---------------------------------------------------------------- Engine
\* a push that puts a connector's documents in front of the earlier ones
PushAllFront(all, result) == result \o all

\* allMetadata.push(...result)
PushAll(all, result) == all \o result

\* fetchSourceMetadata: provider.fetchDocumentsMetadata() resolves with an
\* array, which is pushed whole; the for-loop goes to the next connector
FetcherListResolve ==
    /\ epc = "fetchSource"
    /\ fetchI <= Len(sourceProviderConfigs)
    /\ ~draining
    /\ allMetadata' = PushAll(allMetadata, ConnectorListing(fetchI, sourceListing))
    /\ fetchI' = fetchI + 1
    /\ UNCHANGED <<pvars, dvars, yvars, avars, cvars, targetStore, epc, draining, yielded, tIdx, sourceMetadata,
                   targetMetadata, targetPhase, eError, rvars, fvars>>

\* fetchSourceMetadata: provider.fetchDocumentsMetadata() resolves with an
\* async iterable; the for await starts
FetcherIterableResolve ==
    /\ epc = "fetchSource"
    /\ fetchI <= Len(sourceProviderConfigs)
    /\ ~draining
    /\ draining' = TRUE
    /\ yielded' = 0
    /\ UNCHANGED <<pvars, dvars, yvars, avars, cvars, targetStore, epc, fetchI, allMetadata, tIdx, sourceMetadata,
                   targetMetadata, targetPhase, eError, rvars, fvars>>

\* for await (const metadata of result) allMetadata.push(metadata)
FetcherYield ==
    /\ epc = "fetchSource"
    /\ draining
    /\ yielded < Len(ConnectorListing(fetchI, sourceListing))
    /\ allMetadata' = Append(allMetadata, ConnectorListing(fetchI, sourceListing)[yielded + 1])
    /\ yielded' = yielded + 1
    /\ UNCHANGED <<pvars, dvars, yvars, avars, cvars, targetStore, epc, fetchI, draining, tIdx, sourceMetadata,
                   targetMetadata, targetPhase, eError, rvars, fvars>>

\* the iterable is exhausted: the for await ends and the for-loop goes to
\* the next connector
FetcherIterableDone ==
    /\ epc = "fetchSource"
    /\ draining
    /\ yielded = Len(ConnectorListing(fetchI, sourceListing))
    /\ draining' = FALSE
    /\ yielded' = 0
    /\ fetchI' = fetchI + 1
    /\ UNCHANGED <<pvars, dvars, yvars, avars, cvars, targetStore, epc, allMetadata, tIdx, sourceMetadata,
                   targetMetadata, targetPhase, eError, rvars, fvars>>

\* a fetchSourceMetadata that hands back what it has listed so far when a
\* connector's listing rejects
EngineFetchSourceThrowPartial ==
    /\ epc = "fetchSource"
    /\ fetchI <= Len(sourceProviderConfigs)
    /\ sourceMetadata' = allMetadata
    /\ tIdx' = 1
    /\ epc' = "fetchTarget"
    /\ UNCHANGED <<pvars, dvars, yvars, avars, cvars, targetStore, fetchI, draining, yielded, allMetadata, targetMetadata,
                   targetPhase, eError, rvars, fvars>>

\* await this.fetcher.fetchSourceMetadata() resolves: the for-loop is
\* through every connector and allMetadata is returned
EngineFetchSource ==
    /\ epc = "fetchSource"
    /\ fetchI > Len(sourceProviderConfigs)
    /\ sourceMetadata' = allMetadata
    /\ tIdx' = 1
    /\ epc' = IF NumTargets >= 1 THEN "fetchTarget" ELSE "done"
    /\ UNCHANGED <<pvars, dvars, yvars, avars, cvars, targetStore, fetchI, draining, yielded, allMetadata,
                   targetMetadata, targetPhase, eError,
                   rvars, fvars>>

\* a source connector's listing rejects: fetchSourceMetadata rejects and
\* so does run
EngineFetchSourceThrow ==
    /\ epc = "fetchSource"
    /\ fetchI <= Len(sourceProviderConfigs)
    /\ eError' = ListingError
    /\ epc' = "failed"
    /\ UNCHANGED <<pvars, dvars, yvars, avars, cvars, targetStore, fetchI, draining, yielded, allMetadata, tIdx, sourceMetadata,
                   targetMetadata, targetPhase, rvars, fvars>>

\* await this.fetcher.fetchTargetMetadata(targetProvider) resolves with
\* what the target holds
EngineFetchTarget ==
    /\ epc = "fetchTarget"
    /\ \E listing \in TargetListings :
        /\ targetStore' = [targetStore EXCEPT ![tIdx] = BagOfSeq(listing)]
        /\ targetMetadata' = listing
    /\ targetPhase' = [targetPhase EXCEPT ![tIdx] = "fetched"]
    /\ epc' = "plan"
    /\ UNCHANGED <<pvars, dvars, yvars, avars, cvars, fetchI, draining, yielded, allMetadata, tIdx, sourceMetadata, eError, rvars, fvars>>

\* the target's listing rejects
EngineFetchTargetThrow ==
    /\ epc = "fetchTarget"
    /\ eError' = ListingError
    /\ epc' = "failed"
    /\ UNCHANGED <<pvars, dvars, yvars, avars, cvars, targetStore, fetchI, draining, yielded, allMetadata, tIdx, sourceMetadata,
                   targetMetadata, targetPhase, rvars, fvars>>

\* createSyncPlan(sourceMetadata, targetMetadata), new Reconciler(...) and
\* the call of reconciler.execute(plan)
EnginePlanExecute ==
    /\ epc = "plan"
    /\ ExecuteStart(Plan(sourceMetadata, targetMetadata), tIdx)
    /\ targetPhase' = [targetPhase EXCEPT ![tIdx] = "executing"]
    /\ epc' = "reconcile"
    /\ UNCHANGED <<pvars, dvars, yvars, avars, cvars, targetStore, fetchI, draining, yielded, allMetadata, tIdx, sourceMetadata,
                   targetMetadata, eError>>

\* a run that keeps the source listing for its first target only
EngineExecuteReturnedDropsSource ==
    /\ epc = "reconcile"
    /\ rpc = "returned"
    /\ targetPhase' = [targetPhase EXCEPT ![tIdx] = "succeeded"]
    /\ tIdx' = tIdx + 1
    /\ epc' = IF tIdx < NumTargets THEN "fetchTarget" ELSE "done"
    /\ allMetadata' = <<>>
    /\ sourceMetadata' = IF tIdx < NumTargets THEN <<>> ELSE sourceMetadata
    /\ rpc' = "idle"
    /\ UNCHANGED <<pvars, dvars, yvars, avars, cvars, targetStore, fetchI, draining, yielded,
                   targetMetadata, eError, fvars,
                   rTarget, plan, sourceProviders, group, batchI, groupErrors, errors,
                   opStatus, opError, started, opCalls, rError>>

\* await reconciler.execute(plan) resolves: next iteration or end of run
EngineExecuteReturned ==
    /\ epc = "reconcile"
    /\ rpc = "returned"
    /\ targetPhase' = [targetPhase EXCEPT ![tIdx] = "succeeded"]
    /\ tIdx' = tIdx + 1
    /\ epc' = IF tIdx < NumTargets THEN "fetchTarget" ELSE "done"
    /\ rpc' = "idle"
    /\ UNCHANGED <<pvars, dvars, yvars, avars, cvars, targetStore, fetchI, draining, yielded, allMetadata, sourceMetadata,
                   targetMetadata, eError, fvars,
                   rTarget, plan, sourceProviders, group, batchI, groupErrors, errors,
                   opStatus, opError, started, opCalls, rError>>

\* a run that catches the rejection of reconciler.execute(plan) and goes on
\* to the next target
EngineExecuteThrewSwallowed ==
    /\ epc = "reconcile"
    /\ rpc = "thrown"
    /\ targetPhase' = [targetPhase EXCEPT ![tIdx] = "failed"]
    /\ tIdx' = tIdx + 1
    /\ epc' = IF tIdx < NumTargets THEN "fetchTarget" ELSE "done"
    /\ rpc' = "idle"
    /\ UNCHANGED <<pvars, dvars, yvars, avars, cvars, targetStore, fetchI, draining, yielded, allMetadata, sourceMetadata,
                   targetMetadata, eError, fvars,
                   rTarget, plan, sourceProviders, group, batchI, groupErrors, errors,
                   opStatus, opError, started, opCalls, rError>>

\* await reconciler.execute(plan) rejects: nothing catches it, run rejects
EngineExecuteThrew ==
    /\ epc = "reconcile"
    /\ rpc = "thrown"
    /\ targetPhase' = [targetPhase EXCEPT ![tIdx] = "failed"]
    /\ eError' = rError
    /\ epc' = "failed"
    /\ rpc' = "idle"
    /\ UNCHANGED <<pvars, dvars, yvars, avars, cvars, targetStore, fetchI, draining, yielded, allMetadata, tIdx, sourceMetadata,
                   targetMetadata, fvars,
                   rTarget, plan, sourceProviders, group, batchI, groupErrors, errors,
                   opStatus, opError, started, opCalls, rError>>

\* ------------------------------------------------------- run specification
\* The state after construction.  An Engine has built its source
\* connectors around a TempFileManagerImpl of its own (directory 1).
Init ==
    /\ PlannerIdle
    /\ DocIdOff
    /\ DifyOff
    /\ AppOff
    /\ driver \in {"Engine", "Reconciler"}
    /\ dryRun \in BOOLEAN
    /\ \E sc \in Scenarios(driver) :
        /\ sourceProviderConfigs = sc[1]
        /\ sourceListing = sc[2]
    /\ hung = NoHang
    /\ targetStore = [t \in 1..NumTargets |-> EmptyBag]
    /\ epc = IF driver = "Engine" THEN "fetchSource" ELSE "off"
    /\ fetchI = IF driver = "Engine" THEN 1 ELSE 0
    /\ draining = FALSE
    /\ yielded = 0
    /\ allMetadata = <<>>
    /\ tIdx = 0
    /\ sourceMetadata = <<>>
    /\ targetMetadata = <<>>
    /\ targetPhase = [t \in 1..NumTargets |-> "untouched"]
    /\ eError = NoError
    /\ ReconcilerIdle
    /\ dirs = IF driver = "Engine" THEN {1} ELSE {}
    /\ files = {}
    /\ nextDir = IF driver = "Engine" THEN 2 ELSE 1
    /\ tempDir = 0

Next ==
    \/ ReconcilerCall
    \/ CreateProviders
    \/ CreateProvidersThrow
    \/ StartBatch
    \/ \E k \in OpIds : DownloadResolve(k)
    \/ \E k \in OpIds : DownloadReject(k)
    \/ \E k \in OpIds : TargetResolve(k)
    \/ \E k \in OpIds : TargetReject(k)
    \/ BatchSettled
    \/ BatchDelay
    \/ GroupDone
    \/ Report
    \/ Cleanup
    \/ FetcherListResolve
    \/ FetcherIterableResolve
    \/ FetcherYield
    \/ FetcherIterableDone
    \/ EngineFetchSource
    \/ EngineFetchSourceThrow
    \/ EngineFetchTarget
    \/ EngineFetchTargetThrow
    \/ EnginePlanExecute
    \/ EngineExecuteReturned
    \/ EngineExecuteThrew

Spec == Init /\ [][Next]_vars

\* ------------------------------------------- Reconciler run specification
\* One Reconciler.execute on its own, in which one connector call may be
\* one that never settles; the event loop runs every continuation that is
\* ready and every other connector call settles.
Hangs == {NoHang} \cup ({1, 3} \X {"download", "target"})

InitReconciler ==
    /\ PlannerIdle
    /\ DocIdOff
    /\ DifyOff
    /\ AppOff
    /\ driver = "Reconciler"
    /\ dryRun \in BOOLEAN
    /\ \E sc \in Scenarios(driver) :
        /\ sourceProviderConfigs = sc[1]
        /\ sourceListing = sc[2]
    /\ hung \in Hangs
    /\ dryRun => hung = NoHang
    /\ targetStore = [t \in 1..NumTargets |-> EmptyBag]
    /\ epc = "off"
    /\ fetchI = 0
    /\ draining = FALSE
    /\ yielded = 0
    /\ allMetadata = <<>>
    /\ tIdx = 0
    /\ sourceMetadata = <<>>
    /\ targetMetadata = <<>>
    /\ targetPhase = [t \in 1..NumTargets |-> "untouched"]
    /\ eError = NoError
    /\ ReconcilerIdle
    /\ dirs = {}
    /\ files = {}
    /\ nextDir = 1
    /\ tempDir = 0

NextReconciler ==
    \/ ReconcilerCall
    \/ CreateProviders
    \/ CreateProvidersThrow
    \/ StartBatch
    \/ \E k \in OpIds : DownloadResolve(k)
    \/ \E k \in OpIds : DownloadReject(k)
    \/ \E k \in OpIds : TargetResolve(k)
    \/ \E k \in OpIds : TargetReject(k)
    \/ BatchSettled
    \/ BatchDelay
    \/ GroupDone
    \/ Report
    \/ Cleanup

SpecReconciler == InitReconciler /\ [][NextReconciler]_vars /\ WF_vars(NextReconciler)

\* ======================================================================
\* Properties of the run specification (Spec)
\* ======================================================================
ExecuteEnded == rpc \in {"returned", "thrown"}

NonSkip(k) == Operations[k].type # "skip"

FailedOps == {k \in OpIds : opStatus[k] = "failed"}

GroupTypes == {"create", "update", "delete"}

\* the batch the q-th operation of a group is in: consecutive slices of 5
BatchOfPos(q) == (q - 1) \div 5

\* C1: when the Reconciler run against a target ended in the aggregate
\* failure, Engine.run has, by the time it ends, gone on to every later target
C1_FailedTargetDoesNotBlockLater ==
    \A t \in 1..NumTargets :
        (epc \in {"done", "failed"} /\ targetPhase[t] = "failed" /\ eError.kind = "aggregate")
            => \A u \in (t + 1)..NumTargets : targetPhase[u] # "untouched"

\* C2: once execute has returned or thrown, the temp directory it created
\* is gone, and so is every file in it
C2_TempDirRemovedOnEveryExit ==
    ExecuteEnded => (tempDir \notin dirs /\ \A f \in files : f[1] # tempDir)

\* C2 witness: execute threw the aggregate error after a file had been staged
C2_Witness ==
    /\ rpc = "thrown"
    /\ rError.kind = "aggregate"
    /\ \E k \in OpIds : Len(opCalls[k]) = 2
    /\ tempDir \notin dirs

\* C3 as stated: after a non-dry run every create, update and delete
\* operation of the plan has been started exactly once
C3_Original ==
    (~dryRun /\ ExecuteEnded) => \A k \in OpIds : NonSkip(k) => started[k] = 1

\* C3 amended: no operation is ever started twice, and after a non-dry
\* run that did not stop at a missing provider constructor every create,
\* update and delete operation has been started exactly once
C3_EveryOperationStartedOnce ==
    /\ \A k \in OpIds : started[k] <= 1
    /\ (~dryRun /\ ExecuteEnded /\ rError.kind # "constructor")
          => \A k \in OpIds : NonSkip(k) => started[k] = 1

\* C3 witness: an operation of the first batch failed and the run still
\* went through a second batch and a later group
C3_Witness ==
    /\ ~dryRun
    /\ rpc = "thrown"
    /\ \E g \in GroupTypes :
        LET ops == GroupOps(g)
        IN \E q1, q2 \in 1..Len(ops) :
            /\ BatchOfPos(q1) = 0 /\ BatchOfPos(q2) = 1
            /\ opStatus[ops[q1]] = "failed" /\ started[ops[q2]] = 1
    /\ \A k \in OpIds : NonSkip(k) => started[k] = 1

\* the entry the aggregate message holds for a failed operation
EntryOf(k) == <<Operations[k].type, getDocumentId(Operations[k].documentMetadata), opError[k]>>

Occurrences(seq, x) == Cardinality({j \in 1..Len(seq) : seq[j] = x})

\* execute ends with the aggregate error exactly when an operation failed,
\* and the message then lists each failed operation once and nothing else
AggregateIffFailure ==
    /\ rError.kind = "aggregate" <=> FailedOps # {}
    /\ Len(rError.entries) = Cardinality(FailedOps)
    /\ \A k \in FailedOps :
        Occurrences(rError.entries, EntryOf(k))
            = Cardinality({k2 \in FailedOps : EntryOf(k2) = EntryOf(k)})

\* C4 as stated: aggregate error iff some operation failed, one entry per
\* failed operation, and a normal return when none failed
C4_Original ==
    ExecuteEnded => (AggregateIffFailure /\ (FailedOps = {} => rpc = "returned"))

\* C4 amended: as stated, except that with zero failures execute returns
\* normally only if it did not stop at a missing provider constructor
C4_AggregateErrorIffFailure ==
    ExecuteEnded =>
        /\ AggregateIffFailure
        /\ (FailedOps = {} /\ rError.kind # "constructor") => rpc = "returned"

\* C4 witness: a failed create next to an update that succeeded
C4_Witness ==
    /\ rpc = "thrown"
    /\ \E k1, k2 \in OpIds :
        /\ Operations[k1].type = "create" /\ opStatus[k1] = "failed"
        /\ Operations[k2].type = "update" /\ opStatus[k2] = "ok"
    /\ Len(rError.entries) = 1

\* C5: in a dry run no connector method is called for any operation
C5_DryRunCallsNoConnector ==
    dryRun => \A k \in OpIds : opCalls[k] = <<>>

\* C5 witness: a dry run over creates and a delete has ended
C5_Witness ==
    /\ dryRun
    /\ rpc = "returned"
    /\ \E k1, k2 \in OpIds :
        /\ Operations[k1].type = "create" /\ started[k1] = 1
        /\ Operations[k2].type = "delete" /\ started[k2] = 1

\* C6 as stated: a dry run never ends in an error
C6_Original ==
    (dryRun /\ ExecuteEnded) => (rpc = "returned" /\ rError = NoError)

\* C6 amended: a dry run returns normally whenever every configured source
\* provider kind has a constructor, whether or not a source is registered
\* for the plan's providerIds; the only error it ends in is the missing
\* constructor
C6_DryRunSucceeds ==
    (dryRun /\ ExecuteEnded) =>
        /\ MissingConstructors = <<>> => (rpc = "returned" /\ rError = NoError)
        /\ rpc = "thrown" => rError.kind = "constructor"

\* C6 witness: a dry run over a plan with creates returned although no
\* source is registered
C6_Witness ==
    /\ dryRun
    /\ rpc = "returned"
    /\ sourceProviderConfigs = <<>>
    /\ \E k \in OpIds : Operations[k].type = "create" /\ started[k] = 1

\* directories made by an execute (the Engine constructor made directory 1)
ExecuteDirs == dirs \ (IF driver = "Engine" THEN {1} ELSE {})

\* C7 as stated: a dry run creates neither a temp directory nor a staged file
C7_Original ==
    dryRun => (ExecuteDirs = {} /\ files = {})

\* C7 amended: a dry run stages no file; the temp directory is still
\* created when execute starts and removed when it ends
C7_DryRunStagesNoFile ==
    dryRun =>
        /\ files = {}
        /\ rpc \in {"providers", "group", "batch", "delay", "report", "cleanup"}
              => ExecuteDirs = {tempDir}
        /\ rpc \in {"idle", "returned", "thrown"} => ExecuteDirs = {}

\* C7 witness: a dry run is processing a create
C7_Witness ==
    /\ dryRun
    /\ rpc = "batch"
    /\ \E k \in OpIds : Operations[k].type = "create" /\ started[k] = 1
    /\ tempDir \in dirs

\* C8: within a group an operation of a later batch has not started while
\* an operation of an earlier batch is unsettled
C8_BatchSettlesBeforeNext ==
    \A g \in GroupTypes :
        LET ops == GroupOps(g)
        IN \A q2 \in 1..Len(ops) :
            (BatchOfPos(q2) > 0 /\ started[ops[q2]] > 0) =>
                \A q1 \in 1..Len(ops) : BatchOfPos(q1) < BatchOfPos(q2) => Settled(ops[q1])

\* C8 witness: an operation of the second batch is in flight
C8_Witness ==
    \E g \in GroupTypes :
        LET ops == GroupOps(g)
        IN \E q \in 1..Len(ops) : BatchOfPos(q) = 1 /\ InFlight(ops[q])

\* C9: at most batchSize operations are in flight at any time
C9_InFlightAtMostBatchSize ==
    Cardinality({k \in OpIds : InFlight(k)}) <= batchSize

\* C9 witness: a full batch is in flight
C9_Witness ==
    Cardinality({k \in OpIds : InFlight(k)}) = batchSize

\* ------------------------------------------------------------ convergence
\* the source listing the plan of this run was made from
RunSource == IF driver = "Engine" THEN sourceMetadata ELSE sourceListing

NoDuplicateIds(seq) ==
    \A i, j \in 1..Len(seq) : getDocumentId(seq[i]) = getDocumentId(seq[j]) => i = j

\* the plan made from the same source and what the target lists now
Replan == Plan(RunSource, BagSeq(targetStore[rTarget]))

NonSkipIdsOf(ops) ==
    {getDocumentId(ops[k].documentMetadata) : k \in {h \in 1..Len(ops) : ops[h].type # "skip"}}

ReplanNonSkipIds == NonSkipIdsOf(Replan.operations)

FailedIds == {getDocumentId(Operations[k].documentMetadata) : k \in FailedOps}

\* a run that executed its plan: not a dry run, and not one stopped at a
\* provider kind without a constructor
PlanExecuted == ExecuteEnded /\ ~dryRun /\ rError.kind # "constructor"

PlannerReached == tIdx >= 1

\* C17: when a source connector's listing has failed Engine.run has
\* rejected with that failure, no target was listed, planned for or
\* mutated and no connector was called for an operation; and the Planner is
\* only ever reached with the listings of all source connectors
C17_SourceListingFailureStopsRun ==
    driver = "Engine" =>
        /\ (epc = "failed" /\ tIdx = 0) =>
            /\ eError = ListingError
            /\ \A t \in 1..NumTargets :
                targetPhase[t] = "untouched" /\ targetStore[t] = EmptyBag
            /\ rpc = "idle"
            /\ plan = EmptyPlan
            /\ opCalls = <<>>
            /\ sourceMetadata = <<>>
        /\ PlannerReached =>
            /\ sourceMetadata = FetchSourceMetadata(sourceProviderConfigs, sourceListing)
            /\ eError # ListingError \/ targetPhase[tIdx] = "untouched"
        /\ (epc = "fetchSource" /\ allMetadata # <<>>) => ~PlannerReached

\* C17 witness: the second source connector's listing failed after the
\* first had listed a document
C17_Witness ==
    /\ driver = "Engine"
    /\ epc = "failed"
    /\ tIdx = 0
    /\ allMetadata # <<>>
    /\ Len(allMetadata) < Len(FetchSourceMetadata(sourceProviderConfigs, sourceListing))

\* ------------------------------------------------ unregistered providerId
NoConnector(k) == NeedsSource(k) /\ ~HasProvider(k)

SomeReconcilerFailed == \E t \in 1..NumTargets : targetPhase[t] = "failed"

\* C19 as stated: Engine.run has failed exactly when a Reconciler run has
\* failed, and then with that Reconciler's error
C19_Original ==
    driver = "Engine" =>
        /\ epc = "failed" <=> SomeReconcilerFailed
        /\ epc = "failed" => eError = rError

EngineFailureInv ==
    driver = "Engine" =>
        /\ epc = "failed" <=> (eError = ListingError \/ SomeReconcilerFailed)
        /\ SomeReconcilerFailed =>
            /\ targetPhase[tIdx] = "failed"
            /\ \A t \in 1..NumTargets : targetPhase[t] = "failed" => t = tIdx
            /\ eError = rError
            /\ eError.kind = "aggregate"
            /\ Len(eError.entries) = Cardinality(FailedOps)
        /\ eError = ListingError => ~SomeReconcilerFailed
        /\ epc = "done" =>
            /\ eError = NoError
            /\ \A t \in 1..NumTargets : targetPhase[t] = "succeeded"

\* a rejected reconciler.execute rejects run with the same error
EngineFailureStep ==
    (driver = "Engine" /\ rpc = "thrown") =>
        /\ epc' = "failed"
        /\ eError' = rError
        /\ targetPhase'[tIdx] = "failed"

\* C19: Engine.run fails exactly when a metadata listing (of a source or of
\* a target) fails or a Reconciler run fails; a failed Reconciler run makes
\* Engine.run fail at once with that Reconciler's error unchanged, which
\* holds the failures of that one target only
C19_EngineFailsWithReconcilerError ==
    []EngineFailureInv /\ [][EngineFailureStep]_vars

\* C19 witness: the second target's Reconciler failed after the first
\* target's run went through, and Engine.run failed with its error
C19_Witness ==
    /\ driver = "Engine"
    /\ epc = "failed"
    /\ NumTargets >= 2
    /\ targetPhase[1] = "succeeded"
    /\ targetPhase[2] = "failed"
    /\ eError = rError

\* ------------------------------------------------- one source fetch per run
\* a step of fetchSourceMetadata, or one that replaces its result
SourceFetchStep ==
    \/ fetchI' # fetchI
    \/ allMetadata' # allMetadata
    \/ sourceMetadata' # sourceMetadata

SourceFetchedFirstInv ==
    driver = "Engine" =>
        /\ \A t \in 1..NumTargets :
            targetPhase[t] # "untouched" =>
                /\ epc # "fetchSource"
                /\ sourceMetadata = FetchSourceMetadata(sourceProviderConfigs, sourceListing)
        /\ rpc # "idle" => plan = Plan(sourceMetadata, targetMetadata)

SourceFetchedOnceStep ==
    (driver = "Engine" /\ SourceFetchStep) =>
        /\ epc = "fetchSource"
        /\ tIdx = 0
        /\ \A t \in 1..NumTargets : targetPhase[t] = "untouched"
        /\ fetchI' # fetchI => fetchI' = fetchI + 1

\* C21: the source connectors are listed, each once, only before any target
\* is listed; once a target has been listed the source listing is that of
\* all connectors and is never replaced, and the plan handed to every
\* target's Reconciler is made from it
C21_SourceFetchedOnceBeforeTargets ==
    []SourceFetchedFirstInv /\ [][SourceFetchedOnceStep]_vars

\* C21 witness: the second target's plan, made from the listing fetched
\* before the first target, is being executed
C21_Witness ==
    /\ driver = "Engine"
    /\ tIdx = 2
    /\ targetPhase[1] = "succeeded"
    /\ rpc # "idle"
    /\ sourceMetadata # <<>>
    /\ plan = Plan(sourceMetadata, targetMetadata)

\* ------------------------------------------------- targets one at a time
TargetsInTurnInv ==
    driver = "Engine" =>
        /\ \A t \in 1..NumTargets :
            /\ targetPhase[t] # "untouched" =>
                /\ t <= tIdx
                /\ \A u \in 1..(t - 1) : targetPhase[u] = "succeeded"
            /\ targetPhase[t] = "fetched" =>
                /\ rpc = "idle"
                /\ tempDir \notin dirs
                /\ files = {}
            /\ targetPhase[t] = "untouched" => targetStore[t] = EmptyBag
        /\ rpc # "idle" => rTarget = tIdx

TargetsInTurnStep ==
    driver = "Engine" =>
        \A t \in 1..NumTargets :
            targetStore'[t] # targetStore[t] =>
                /\ t = tIdx
                /\ \/ epc = "fetchTarget"
                   \/ rpc = "batch" /\ rTarget = t /\ targetPhase[t] = "executing"

\* C22: a target is listed only when every earlier target's fetch, plan and
\* Reconciler run have completed and the run's staging directory is gone;
\* what a target holds changes only in the batch steps of the Reconciler
\* built for that target, while it is the Engine's current target
C22_TargetsOneAtATime ==
    []TargetsInTurnInv /\ [][TargetsInTurnStep]_vars

\* C22 witness: the first target's run is over and an operation has gone
\* through on the second target
C22_Witness ==
    /\ driver = "Engine"
    /\ ~dryRun
    /\ targetPhase[1] = "succeeded"
    /\ targetPhase[2] = "executing"
    /\ rTarget = 2
    /\ \E k \in OpIds : NonSkip(k) /\ opStatus[k] = "ok"

\* ---------------------------------------------------------------- C23
\* operation k has been handed a staging path and has not settled yet
Staging(k) == NeedsSource(k) /\ InFlight(k)

\* C23: no two operations that are in flight at the same time in one
\* Reconciler run stage their content at the same file path
C23_NoSharedStagingPath ==
    (rpc = "batch" /\ ~dryRun) =>
        \A k1 \in OpIds : \A k2 \in OpIds :
            (k1 # k2 /\ Staging(k1) /\ Staging(k2)) =>
                TempFilePath(k1) # TempFilePath(k2)

\* ---------------------------------------------------------------- C24
\* the target method that belongs to a create and to an update
MethodFor(k) ==
    IF Operations[k].type = "create" THEN "createDocumentFromFile" ELSE "updateDocumentFromFile"

TargetWasCalled(k) == opStatus[k] \in {"target", "ok"} \/ opError[k] = "target failed"

\* C24: in a non-dry run every create/update operation first calls
\* downloadDocumentContent with its DocumentId and only then the target,
\* createDocumentFromFile for a create and updateDocumentFromFile for an
\* update, with the operation's metadata and the path the download staged
C24_DownloadThenMatchingTargetCall ==
    ~dryRun =>
        \A k \in OpIds :
            NeedsSource(k) =>
                /\ Len(opCalls[k]) <= 2
                /\ Len(opCalls[k]) >= 1 =>
                        opCalls[k][1] = <<"downloadDocumentContent",
                                          getDocumentId(Operations[k].documentMetadata)>>
                /\ TargetWasCalled(k) <=> Len(opCalls[k]) = 2
                /\ Len(opCalls[k]) = 2 =>
                        /\ opCalls[k][2][1] = MethodFor(k)
                        /\ opCalls[k][2][2] = Operations[k].documentMetadata
                        /\ opCalls[k][2][3] = <<tempDir, getDocumentId(Operations[k].documentMetadata)>>
                        /\ rpc \in {"group", "batch", "delay", "report"} => opCalls[k][2][3] \in files

\* a create and an update of one plan have both gone through the target
C24_Witness ==
    /\ ~dryRun
    /\ \E k1 \in OpIds : \E k2 \in OpIds :
        /\ Operations[k1].type = "create" /\ Operations[k2].type = "update"
        /\ opStatus[k1] = "ok" /\ opStatus[k2] = "ok"
        /\ opCalls[k1][2][1] = "createDocumentFromFile"
        /\ opCalls[k2][2][1] = "updateDocumentFromFile"

\* ---------------------------------------------------------------- C25
DownloadFailed(k) == opError[k] = "download failed"

\* how often operation k is in the collected errors of the run
Recorded(k) ==
    LET collected == errors \o groupErrors
    IN Cardinality({j \in 1..Len(collected) : collected[j].operation = k})

\* C25: a create/update whose download failed never gets a target call and
\* is recorded as failed once, and every other create/update of the plan
\* whose download went through still has its target method called
C25_DownloadFailureSkipsTargetOnlyForThatOperation ==
    \A k \in OpIds :
        (DownloadFailed(k) /\ NeedsSource(k)) =>
            /\ opStatus[k] = "failed"
            /\ opCalls[k] = <<<<"downloadDocumentContent",
                                getDocumentId(Operations[k].documentMetadata)>>>>
            /\ Recorded(k) <= 1
            /\ rpc = "report" => Recorded(k) = 1
            /\ ExecuteEnded =>
                /\ rpc = "thrown" /\ rError.kind = "aggregate"
                /\ Occurrences(rError.entries, EntryOf(k))
                     = Cardinality({k2 \in FailedOps : EntryOf(k2) = EntryOf(k)})
            /\ \A k2 \in OpIds :
                (NeedsSource(k2) /\ opCalls[k2] # <<>> /\ ~DownloadFailed(k2)) =>
                    /\ Settled(k2) => Len(opCalls[k2]) = 2
                    /\ opStatus[k2] = "ok" => opCalls[k2][2][1] = MethodFor(k2)
            /\ ExecuteEnded =>
                \A k2 \in OpIds : (NeedsSource(k2) /\ HasProvider(k2)) => opCalls[k2] # <<>>

\* the download of a create failed, an update of the same plan went through
\* the target, and the run ended in an aggregate error of that one create
C25_Witness ==
    /\ rpc = "thrown"
    /\ rError.kind = "aggregate"
    /\ \E k1 \in OpIds : \E k2 \in OpIds :
        /\ Operations[k1].type = "create" /\ DownloadFailed(k1) /\ Len(opCalls[k1]) = 1
        /\ Operations[k2].type = "update" /\ opStatus[k2] = "ok" /\ Len(opCalls[k2]) = 2
        /\ rError.entries = <<EntryOf(k1)>>

\* ---------------------------------------------------------------- C26
IsDelete(k) == Operations[k].type = "delete"

DeleteCall(k) == <<"deleteDocument", getDocumentId(Operations[k].documentMetadata)>>

IsSkip(k) == Operations[k].type = "skip"

\* the operations a staged file can come from: the creates and updates
\* whose download has returned
StagedBy(f) == {k \in OpIds : NeedsSource(k) /\ Len(opCalls[k]) = 2 /\ opCalls[k][2][3] = f}

\* C27: in either mode a skip operation is never handed to
\* processOperation, no connector method is called for it, and every
\* staged file belongs to a create or update
C27_SkipTouchesNothing ==
    /\ \A k \in OpIds :
        IsSkip(k) =>
            /\ started[k] = 0
            /\ opCalls[k] = <<>>
            /\ opStatus[k] = "pending"
            /\ opError[k] = ""
    /\ \A f \in files : StagedBy(f) # {}
    /\ (\A k \in OpIds : IsSkip(k)) => (files = {} /\ Len(errors \o groupErrors) = 0)

\* a run over a plan with a skip and an update has ended, the update done
C27_Witness ==
    /\ ExecuteEnded
    /\ \E k1 \in OpIds : \E k2 \in OpIds :
        /\ IsSkip(k1) /\ opCalls[k1] = <<>>
        /\ Operations[k2].type = "update" /\ started[k2] = 1

\* ---------------------------------------------------------------- C29
\* execute is between the creation and the removal of its directory
RunHoldsDir == rpc \in {"providers", "group", "batch", "delay", "report", "cleanup"}

\* C29: every staged file lies in the staging directory of the Reconciler
\* run that is executing, never in a directory of another owner, and no
\* staged file exists when no run executes or when a run starts
C29_StagedFilesStayInTheirRun ==
    /\ \A f \in files :
        /\ RunHoldsDir
        /\ f[1] = tempDir
        /\ f[1] \in ExecuteDirs
    /\ rpc \in {"idle", "providers", "returned", "thrown"} => files = {}
    /\ RunHoldsDir => (tempDir = nextDir - 1 /\ ExecuteDirs = {tempDir})
    /\ ~RunHoldsDir => ExecuteDirs = {}

\* the run for the second target stages in its own directory after the
\* run for the first target has staged, written to the target and cleaned up
C29_Witness ==
    /\ driver = "Engine"
    /\ rTarget = 2
    /\ targetPhase[1] = "succeeded"
    /\ \E d \in BagToSet(targetStore[1]) : d.title = "S"
    /\ files # {}
    /\ \A f \in files : f[1] = tempDir
    /\ tempDir = 3
    /\ dirs = {1, 3}

\* ---------------------------------------------------------------- C30
\* what the connectors before the i-th list, counted
RECURSIVE ListedBefore(_)
ListedBefore(i) ==
    IF i <= 1 THEN 0 ELSE ListedBefore(i - 1) + Len(ConnectorListing(i - 1, sourceListing))

\* the documents the for-loop has pushed: the whole listing of every
\* connector it is through and the part of the current one a for await took
PushedSoFar ==
    FetchSourceMetadata(SubSeq(sourceProviderConfigs, 1, fetchI - 1), sourceListing)
        \o (IF draining THEN SubSeq(ConnectorListing(fetchI, sourceListing), 1, yielded) ELSE <<>>)

PhaseRank(p) ==
    CASE p = "idle" -> 0
      [] p = "providers" -> 1
      [] p \in {"group", "batch", "delay"} -> 2
      [] p = "report" -> 3
      [] p = "cleanup" -> 4
      [] OTHER -> 5

EndedInSuccess == rpc = "returned" /\ rError = NoError

EndedInAggregateFailure == rpc = "thrown" /\ rError.kind = "aggregate"

EndedAtConstructor == rpc = "thrown" /\ rError.kind = "constructor"

\* C31 as stated: a run that has ended has ended in exactly one of success
\* and aggregate failure
C31_Original ==
    ExecuteEnded => (EndedInSuccess \/ EndedInAggregateFailure)

\* the staging directory exists from staging-acquired until it is released
\* by the step that ends the run, and a run ends in one way
RunPhasesInv ==
    /\ PhaseRank(rpc) \in 1..4 <=> tempDir \in dirs
    /\ ExecuteEnded =>
        /\ EndedInSuccess \/ EndedInAggregateFailure \/ EndedAtConstructor
        /\ ~(EndedInSuccess /\ EndedInAggregateFailure)
        /\ EndedAtConstructor => (MissingConstructors # <<>> /\ \A k \in OpIds : started[k] = 0)

\* a run moves forward one phase at a time; only a missing constructor
\* takes it from staging-acquired past processing
RunPhasesStep ==
    /\ PhaseRank(rpc') >= PhaseRank(rpc)
    /\ PhaseRank(rpc') <= PhaseRank(rpc) + 1
         \/ (rpc = "providers" /\ rpc' = "cleanup" /\ rError'.kind = "constructor")

\* C31 amended: when every connector call settles a run terminates; it
\* passes start, staging-acquired, processing and staging-released in that
\* order and ends in success or in the aggregate failure, or it ends in the
\* missing-constructor error straight after staging-acquired, with the
\* staging directory released as well
C31_RunTerminatesThroughPhases ==
    /\ (hung = NoHang) => <>ExecuteEnded
    /\ []RunPhasesInv
    /\ [][RunPhasesStep]_vars

\* a run over two batches with a failed operation has ended
C31_Witness ==
    /\ hung = NoHang
    /\ EndedInAggregateFailure
    /\ Len(Operations) > batchSize
    /\ \A k \in OpIds : NonSkip(k) => started[k] = 1
    /\ tempDir \notin dirs

\* ---------------------------------------------------------------- C32
\* the call that never settles has been made and is pending
HungInFlight == hung[1] \in OpIds /\ opStatus[hung[1]] = hung[2]

GroupRank(k) ==
    CASE Operations[k].type = "create" -> 1
      [] Operations[k].type = "update" -> 2
      [] Operations[k].type = "delete" -> 3
      [] OTHER -> 4

\* the place of operation k in its group
PosInGroup(k) == Cardinality({j \in 1..k : Operations[j].type = Operations[k].type})

\* operation k comes in a later batch or a later group than operation h
StartsAfter(k, h) ==
    \/ GroupRank(k) > GroupRank(h)
    \/ GroupRank(k) = GroupRank(h) /\ BatchOfPos(PosInGroup(k)) > BatchOfPos(PosInGroup(h))

\* the run waits in the batch of the pending call: nothing later has
\* started, nothing is reported and the staging directory is there
Stalled ==
    /\ rpc = "batch"
    /\ InBatch(hung[1])
    /\ \A k \in OpIds : (NonSkip(k) /\ StartsAfter(k, hung[1])) => started[k] = 0
    /\ rError = NoError
    /\ tempDir \in dirs

\* C32: from the moment a connector call that never settles is pending,
\* the run stays in that call's batch for ever: no operation of a later
\* batch or group starts, the run neither returns nor throws, and the
\* staging directory is never removed
C32_HungCallStallsRun ==
    [](HungInFlight => [](HungInFlight /\ Stalled))

\* every other operation of the first batch has settled, the call that
\* never settles is pending and a second batch is waiting
C32_Witness ==
    /\ HungInFlight
    /\ \A k \in OpIds : (InBatch(k) /\ k # hung[1]) => Settled(k)
    /\ \E k \in OpIds : StartsAfter(k, hung[1]) /\ started[k] = 0
                          /\ Operations[k].type = Operations[hung[1]].type
    /\ files # {}

\* ---------------------------------------------------------------- C34
\* C34: an operation of a later group is started only when every operation
\* of the earlier groups has been started and has settled: no update before
\* every create has settled, no delete before every update has settled
C34_GroupsInOrder ==
    \A k2 \in OpIds :
        (started[k2] >= 1 /\ GroupRank(k2) >= 2) =>
            \A k1 \in OpIds : GroupRank(k1) < GroupRank(k2) => (started[k1] = 1 /\ Settled(k1))

\* a delete is pending in a run whose create failed and whose update went
\* through
C34_Witness ==
    /\ ~dryRun
    /\ \E k1 \in OpIds : \E k2 \in OpIds : \E k3 \in OpIds :
        /\ Operations[k1].type = "create" /\ opStatus[k1] = "failed"
        /\ Operations[k2].type = "update" /\ opStatus[k2] = "ok"
        /\ Operations[k3].type = "delete" /\ InFlight(k3)

\* ---------------------------------------------------------------- C35
StartedOps == {k \in OpIds : started[k] >= 1}

\* C35: while an operation is in flight the run is inside its batch and the
\* staging directory exists; report and cleanup are reached only with
\* every started operation settled, failed ones included
C35_NoCleanupWhileInFlight ==
    /\ (\E k \in OpIds : InFlight(k)) => (rpc = "batch" /\ tempDir \in dirs)
    /\ rpc \in {"report", "cleanup", "returned", "thrown"} => \A k \in StartedOps : Settled(k)
    /\ \A f \in files : f[1] \in dirs

\* cleanup is about to run after a run with a failed operation that had
\* staged files
C35_Witness ==
    /\ rpc = "cleanup"
    /\ tempDir \in dirs
    /\ files # {}
    /\ FailedOps # {}
    /\ \E k \in OpIds : opStatus[k] = "ok"
    /\ \A k \in OpIds : NonSkip(k) => Settled(k)

\* ---------------------------------------------------------------- C36
\* C36: with a configured source kind that has no constructor, execute
\* attempts no operation and calls no connector, in either mode and for
\* any plan; it throws the constructor error, which is not an aggregate
\* error and lists no operation, and the staging directory is removed
C36_MissingConstructorFailsBeforeOperations ==
    (MissingConstructors # <<>> /\ rpc # "idle") =>
        /\ rpc \in {"providers", "cleanup", "thrown"}
        /\ \A k \in OpIds : started[k] = 0 /\ opCalls[k] = <<>> /\ opStatus[k] = "pending"
        /\ errors = <<>> /\ groupErrors = <<>>
        /\ files = {}
        /\ rpc \in {"cleanup", "thrown"} =>
            rError = ConstructorNotFound(MissingConstructors[1][2].provider)
        /\ rpc = "thrown" => (tempDir \notin dirs /\ ExecuteDirs = {})
        /\ rpc = "providers" => rError = NoError

\* a dry run over a plan of deletes alone has thrown the constructor error
C36_Witness ==
    /\ dryRun
    /\ rpc = "thrown"
    /\ rError.kind = "constructor"
    /\ OpIds # {}
    /\ \A k \in OpIds : Operations[k].type = "delete" /\ started[k] = 0
    /\ tempDir \notin dirs

\* ---------------------------------------------------------------- C38
EngineRunCompleted == driver = "Engine" /\ epc \in {"done", "failed"}

\* C38: when Engine.run has completed, with or without an error, no temp
\* staging directory made by the Engine constructor or by a Reconciler run
\* it drove exists
C38_NoStagingDirectoryAfterEngineRun ==
    EngineRunCompleted => dirs = {}

\* ---------------------------------------------------------------- C39
\* the source connector that listed the j-th document of the flat listing
ListedByConnector(j) ==
    CHOOSE i \in 1..Len(sourceProviderConfigs) :
        ListedBefore(i) < j /\ j <= ListedBefore(i + 1)

\* operation k of an Engine plan has called downloadDocumentContent
Downloaded(k) == NeedsSource(k) /\ opCalls[k] # <<>>

\* C39: in an Engine run every create/update operation downloads through a
\* connector built with the settings of the source config whose connector
\* listed the operation's document
C39_DownloadThroughListingConfig ==
    (driver = "Engine" /\ rpc # "idle") =>
        \A k \in OpIds :
            Downloaded(k) =>
                DownloadConnectorConfig(Operations[k].documentMetadata.providerId)
                    = ListingConnectorConfig(ListedByConnector(k))

\* ------------------------------------------------ Planner specification
\* documents the Planner spec draws its lists from; source documents are
\* titled "S" and target documents "T" so that an operation shows whose
\* metadata it carries
PlannerProviderIds == {<<"n">>, <<"g">>}
PlannerSourceIds == {<<"1">>, <<"2">>}
Timestamps == {1, 2}

PlannerIds ==
    {id \in PlannerProviderIds \X PlannerSourceIds : id # <<<<"g">>, <<"2">>>>}

PlannerDocs(title) ==
    {Doc(id[1], id[2], title, lm) : id \in PlannerIds, lm \in Timestamps}

SeqsUpTo(S, n) == UNION {[1..k -> S] : k \in 0..n}

InitPlanner ==
    /\ pSource \in SeqsUpTo(PlannerDocs("S"), MaxPlanLen)
    /\ pTarget \in SeqsUpTo(PlannerDocs("T"), MaxTargetLen)
    /\ pPlan = EmptyPlan
    /\ ppc = "call"
    /\ DocIdOff
    /\ DifyOff
    /\ AppOff
    /\ RunOff

\* planner.plan(pSource, pTarget)
PlannerPlan ==
    /\ ppc = "call"
    /\ pPlan' = Plan(pSource, pTarget)
    /\ ppc' = "done"
    /\ UNCHANGED <<pSource, pTarget, dvars, yvars, avars, cvars, targetStore, evars, rvars, fvars>>

NextPlanner == PlannerPlan

SpecPlanner == InitPlanner /\ [][NextPlanner]_vars

\* ======================================================================
\* Properties of the Planner specification (SpecPlanner)
\* ======================================================================
InTarget(s) == \E j \in 1..Len(pTarget) : getDocumentId(pTarget[j]) = getDocumentId(s)

CreateOpFor(s) == Op("create", s, "Document does not exist in target")

SameId(a, b) == getDocumentId(a) = getDocumentId(b)

FirstInSource(i) == \A h \in 1..(i - 1) : ~SameId(pSource[h], pSource[i])

LastInTarget(j) == \A h \in (j + 1)..Len(pTarget) : ~SameId(pTarget[h], pTarget[j])

UpdateReason(s, t) ==
    <<"Source modified at", s.lastModified,
      "is newer than target modified at", t.lastModified>>

\* the operation a matched pair calls for
MatchedOp(s, t) ==
    IF s.lastModified > t.lastModified
    THEN Op("update", s, UpdateReason(s, t))
    ELSE Op("skip", s, "Document is up to date")

\* C11 as stated: every source document s and every target document t of the
\* same DocumentId give, at s's place, an update when s is strictly newer
\* than t and a skip otherwise, carrying s's metadata
C11_Original ==
    ppc = "done" =>
        \A i \in 1..Len(pSource) : \A j \in 1..Len(pTarget) :
            SameId(pSource[i], pTarget[j]) =>
                /\ pPlan.operations[i].type = MatchedOp(pSource[i], pTarget[j]).type
                /\ pPlan.operations[i].documentMetadata = pSource[i]

\* C11: for the first source document s of a DocumentId and the last target
\* document t of that DocumentId, the operation at s's place is an update
\* when s is strictly newer than t and a skip when s is as old as t or
\* older, it carries s's metadata, and equal timestamps never give an update
C11_UpdateOrSkipForMatchedPair ==
    ppc = "done" =>
        \A i \in 1..Len(pSource) : \A j \in 1..Len(pTarget) :
            (SameId(pSource[i], pTarget[j]) /\ FirstInSource(i) /\ LastInTarget(j)) =>
                /\ pPlan.operations[i] = MatchedOp(pSource[i], pTarget[j])
                /\ (pSource[i].lastModified = pTarget[j].lastModified
                        => pPlan.operations[i].type = "skip")
                /\ (pSource[i].lastModified < pTarget[j].lastModified
                        => pPlan.operations[i].type = "skip")
                /\ (pSource[i].lastModified > pTarget[j].lastModified
                        => pPlan.operations[i].type = "update")

\* C11 witness: one plan holds a skip for a pair of equal timestamps and an
\* update for a pair whose source is newer
C11_Witness ==
    /\ ppc = "done"
    /\ \E i \in 1..Len(pSource) : \E j \in 1..Len(pTarget) :
        /\ SameId(pSource[i], pTarget[j]) /\ FirstInSource(i) /\ LastInTarget(j)
        /\ pSource[i].lastModified = pTarget[j].lastModified
        /\ pPlan.operations[i].type = "skip"
    /\ \E i \in 1..Len(pSource) : \E j \in 1..Len(pTarget) :
        /\ SameId(pSource[i], pTarget[j]) /\ FirstInSource(i) /\ LastInTarget(j)
        /\ pSource[i].lastModified > pTarget[j].lastModified
        /\ pPlan.operations[i].type = "update"

\* ------------------------------------------------------- delete operations
InSource(t) == \E i \in 1..Len(pSource) : SameId(pSource[i], t)

DeleteOpFor(t) == Op("delete", t, "Document no longer exists in source")

DeletesOf(t) ==
    {k \in 1..Len(pPlan.operations) :
        /\ pPlan.operations[k].type = "delete"
        /\ pPlan.operations[k].documentMetadata = t}

DeletesOfId(t) ==
    {k \in 1..Len(pPlan.operations) :
        /\ pPlan.operations[k].type = "delete"
        /\ SameId(pPlan.operations[k].documentMetadata, t)}

\* C12 as stated: every target document t whose DocumentId no source
\* document has gets exactly one delete operation carrying t's metadata,
\* and no delete operation is for a DocumentId of the source list
C12_Original ==
    ppc = "done" =>
        /\ \A j \in 1..Len(pTarget) :
            ~InSource(pTarget[j]) => Cardinality(DeletesOf(pTarget[j])) = 1
        /\ \A k \in 1..Len(pPlan.operations) :
            pPlan.operations[k].type = "delete"
                => ~InSource(pPlan.operations[k].documentMetadata)

\* C12: every DocumentId of the target list that no source document has gets
\* exactly one delete operation, carrying the metadata of the last target
\* document of that DocumentId, and no delete operation is for a DocumentId
\* of the source list
C12_DeleteForTargetOnlyDocument ==
    ppc = "done" =>
        /\ \A j \in 1..Len(pTarget) :
            (~InSource(pTarget[j]) /\ LastInTarget(j)) =>
                /\ Cardinality(DeletesOfId(pTarget[j])) = 1
                /\ \A k \in DeletesOfId(pTarget[j]) :
                    pPlan.operations[k] = DeleteOpFor(pTarget[j])
        /\ \A k \in 1..Len(pPlan.operations) :
            pPlan.operations[k].type = "delete"
                => ~InSource(pPlan.operations[k].documentMetadata)

\* C12 witness: a plan deletes a target-only document while another target
\* document is matched by the source list
C12_Witness ==
    /\ ppc = "done"
    /\ \E j \in 1..Len(pTarget) :
        /\ ~InSource(pTarget[j])
        /\ DeletesOf(pTarget[j]) # {}
    /\ \E j \in 1..Len(pTarget) : InSource(pTarget[j])

\* ----------------------------------------------------------------- summary
OpsOfType(type) == {k \in 1..Len(pPlan.operations) : pPlan.operations[k].type = type}

\* C13: the summary's total is the number of operations and the sum of the
\* four counts, each count is the number of operations of its type, and the
\* plan of two empty lists has no operation and only zero counts
C13_SummaryCountsOperations ==
    ppc = "done" =>
        /\ pPlan.summary.total = Len(pPlan.operations)
        /\ pPlan.summary.total = pPlan.summary.create + pPlan.summary.update
                                    + pPlan.summary.delete + pPlan.summary.skip
        /\ pPlan.summary.create = Cardinality(OpsOfType("create"))
        /\ pPlan.summary.update = Cardinality(OpsOfType("update"))
        /\ pPlan.summary.delete = Cardinality(OpsOfType("delete"))
        /\ pPlan.summary.skip = Cardinality(OpsOfType("skip"))
        /\ ((pSource = <<>> /\ pTarget = <<>>) =>
                /\ pPlan.operations = <<>>
                /\ pPlan.summary = [total |-> 0, create |-> 0, update |-> 0,
                                    delete |-> 0, skip |-> 0])

\* C13 witness: a plan that holds a create, an update or a skip, and two
\* deletes
C13_Witness ==
    /\ ppc = "done"
    /\ pPlan.summary.create = 1
    /\ pPlan.summary.update + pPlan.summary.skip = 1
    /\ pPlan.summary.delete = 2
    /\ pPlan.summary.total = 4

\* ---------------------------------------------------------------- ordering
DeleteIndices == OpsOfType("delete")

\* place in the target list of the document a delete operation carries
TargetPlaces(k) ==
    {j \in 1..Len(pTarget) : pTarget[j] = pPlan.operations[k].documentMetadata}

\* place in the target list where a delete operation's DocumentId first occurs
FirstTargetPlace(k) ==
    CHOOSE j \in 1..Len(pTarget) :
        /\ SameId(pTarget[j], pPlan.operations[k].documentMetadata)
        /\ \A h \in 1..(j - 1) : ~SameId(pTarget[h], pTarget[j])

SourceOpsFirstInSourceOrder ==
    /\ Len(pPlan.operations) >= Len(pSource)
    /\ \A i \in 1..Len(pSource) :
        /\ pPlan.operations[i].type \in {"create", "update", "skip"}
        /\ pPlan.operations[i].documentMetadata = pSource[i]
    /\ \A k \in (Len(pSource) + 1)..Len(pPlan.operations) :
        pPlan.operations[k].type = "delete"

\* C14 as stated: the create, update and skip operations come first, one per
\* source document in the order of the source list, and the delete
\* operations follow in the order in which the documents they carry stand
\* in the target list
C14_Original ==
    ppc = "done" =>
        /\ SourceOpsFirstInSourceOrder
        /\ \A k1, k2 \in DeleteIndices :
            k1 < k2 => \E j1 \in TargetPlaces(k1) : \E j2 \in TargetPlaces(k2) : j1 < j2

\* C14: the create, update and skip operations come first, one per source
\* document in the order of the source list, and the delete operations
\* follow in the order in which their DocumentIds first occur in the target
\* list
C14_OperationsOrdered ==
    ppc = "done" =>
        /\ SourceOpsFirstInSourceOrder
        /\ \A k1, k2 \in DeleteIndices :
            k1 < k2 => FirstTargetPlace(k1) < FirstTargetPlace(k2)

\* C14 witness: a plan with two source operations followed by two deletes
C14_Witness ==
    /\ ppc = "done"
    /\ Len(pSource) >= 2
    /\ Cardinality(DeleteIndices) >= 2

\* ======================================================================
\* The CLI's run command and runApp
\* ======================================================================
\* The iteration of one job is taken as one step: it ends with the job
\* completed, with engine.run() rejected, or with a throw before the run
\* (job not in the configuration, unknown knowledge provider, Engine
\* constructor).
InitApp ==
    /\ PlannerIdle
    /\ DocIdOff
    /\ DifyOff
    /\ RunOff
    /\ optionsJob \in 0..(MaxJobs + 1)
    /\ configJobs \in 0..MaxJobs
    /\ jobsToRun = <<>>
    /\ jobIdx = 0
    /\ jobResult = <<>>
    /\ apc = "cli"
    /\ exitCode = -1
    /\ errorLog = <<>>

AppUnchanged == UNCHANGED <<pvars, dvars, yvars, cvars, targetStore, evars, rvars, fvars>>

\* existsSync(configPath) is false: console.error and process.exit(1)
CliRunNoConfig ==
    /\ apc = "cli"
    /\ apc' = "exited"
    /\ exitCode' = 1
    /\ errorLog' = Append(errorLog, "Error: Configuration file not found")
    /\ UNCHANGED <<optionsJob, configJobs, jobsToRun, jobIdx, jobResult>>
    /\ AppUnchanged

\* the run action imports app.js and calls runApp, up to await loadConfig
CliRunApp ==
    /\ apc = "cli"
    /\ apc' = "load"
    /\ UNCHANGED <<optionsJob, configJobs, jobsToRun, jobIdx, jobResult, exitCode, errorLog>>
    /\ AppUnchanged

\* loadConfig rejects: runApp rejects, the action's catch exits with 1
AppLoadConfigThrow ==
    /\ apc = "load"
    /\ apc' = "exited"
    /\ exitCode' = 1
    /\ errorLog' = Append(errorLog, "Error:")
    /\ UNCHANGED <<optionsJob, configJobs, jobsToRun, jobIdx, jobResult>>
    /\ AppUnchanged

\* if (options.job) jobsToRun = [options.job] else listJobNames(config)
JobsToRun == IF optionsJob # 0 THEN <<optionsJob>> ELSE [i \in 1..configJobs |-> i]

\* loadConfig resolves: jobsToRun is set and the first iteration starts;
\* with no job to run runApp returns and the process ends with code 0
AppLoadConfig ==
    /\ apc = "load"
    /\ jobsToRun' = JobsToRun
    /\ jobResult' = [i \in 1..Len(JobsToRun) |-> "pending"]
    /\ jobIdx' = 1
    /\ apc' = IF JobsToRun = <<>> THEN "exited" ELSE "job"
    /\ exitCode' = IF JobsToRun = <<>> THEN 0 ELSE exitCode
    /\ UNCHANGED <<optionsJob, configJobs, errorLog>>
    /\ AppUnchanged

\* if (options.job) throw error
Rethrow == optionsJob # 0

\* the end of one iteration of the job loop: a failure is rethrown to the
\* action's catch (process.exit(1)) in single-job mode; otherwise the loop
\* goes on, and after the last job runApp returns and the process ends
\* with code 0
AfterJob(result) ==
    /\ jobResult' = [jobResult EXCEPT ![jobIdx] = result]
    /\ errorLog' = IF result = "completed" THEN errorLog
                   ELSE IF Rethrow THEN errorLog \o <<"Job failed", "Error:">>
                   ELSE Append(errorLog, "Job failed")
    /\ IF result # "completed" /\ Rethrow
       THEN apc' = "exited" /\ exitCode' = 1 /\ UNCHANGED jobIdx
       ELSE IF jobIdx < Len(jobsToRun)
       THEN apc' = "job" /\ jobIdx' = jobIdx + 1 /\ UNCHANGED exitCode
       ELSE apc' = "exited" /\ exitCode' = 0 /\ UNCHANGED jobIdx
    /\ UNCHANGED <<optionsJob, configJobs, jobsToRun>>
    /\ AppUnchanged

\* await engine.run() resolves
AppJobCompleted ==
    /\ apc = "job"
    /\ jobsToRun[jobIdx] <= configJobs
    /\ AfterJob("completed")

\* await engine.run() rejects
AppJobEngineFailed ==
    /\ apc = "job"
    /\ jobsToRun[jobIdx] <= configJobs
    /\ AfterJob("engineFailed")

\* getJobConfig, the knowledge provider lookup or new Engine throws
AppJobSetupFailed ==
    /\ apc = "job"
    /\ AfterJob("setupFailed")

NextApp ==
    \/ CliRunNoConfig
    \/ CliRunApp
    \/ AppLoadConfigThrow
    \/ AppLoadConfig
    \/ AppJobCompleted
    \/ AppJobEngineFailed
    \/ AppJobSetupFailed

SpecApp == InitApp /\ [][NextApp]_vars

\* ======================================================================
\* Properties of the app specification (SpecApp)
\* ======================================================================
EngineRunFailed == \E i \in 1..Len(jobResult) : jobResult[i] = "engineFailed"

\* C20: when the process of a run command has ended and an Engine run it
\* launched failed, in single-job mode or with all jobs run, the exit code
\* is not 0
C20_FailedRunExitsNonZero ==
    (apc = "exited" /\ EngineRunFailed) => exitCode # 0

\* ======================================================================
\* DocumentId specification: getDocumentId and parseDocumentId applied to
\* a providerId without ":" and a sourceId that may hold ":"
\* ======================================================================
StringsUpTo(chars, n) == UNION {[1..l -> chars] : l \in 0..n}

ProviderIdChars == {"n", "g"}

SourceIdChars == {"1", ":"}

InitDocId ==
    /\ PlannerIdle
    /\ DifyOff
    /\ AppOff
    /\ RunOff
    /\ dProviderId \in StringsUpTo(ProviderIdChars, MaxIdLen)
    /\ dSourceId \in StringsUpTo(SourceIdChars, MaxIdLen)
    /\ dId = <<>>
    /\ dParsed = NoParse
    /\ dpc = "call"

DocIdUnchanged == UNCHANGED <<pvars, yvars, avars, cvars, targetStore, evars, rvars, fvars>>

\* getDocumentId(metadata)
DocIdCompose ==
    /\ dpc = "call"
    /\ dId' = getDocumentId([providerId |-> dProviderId, sourceId |-> dSourceId])
    /\ dpc' = "composed"
    /\ UNCHANGED <<dProviderId, dSourceId, dParsed>>
    /\ DocIdUnchanged

\* parseDocumentId(id)
DocIdParse ==
    /\ dpc = "composed"
    /\ dParsed' = parseDocumentId(dId)
    /\ dpc' = "parsed"
    /\ UNCHANGED <<dProviderId, dSourceId, dId>>
    /\ DocIdUnchanged

NextDocId ==
    \/ DocIdCompose
    \/ DocIdParse

SpecDocId == InitDocId /\ [][NextDocId]_vars

\* ======================================================================
\* Properties of the DocumentId specification (SpecDocId)
\* ======================================================================
Colons(str) == Cardinality({i \in 1..Len(str) : str[i] = ":"})

\* C28: parseDocumentId gives back the providerId and the sourceId that
\* getDocumentId composed, for a providerId without ":" and any sourceId,
\* with or without ":" in it
C28_ParseInvertsCompose ==
    dpc = "parsed" =>
        /\ Colons(dProviderId) = 0
        /\ dParsed.providerId = dProviderId
        /\ dParsed.sourceId = dSourceId
        /\ getDocumentId(dParsed) = dId

\* an id whose sourceId holds two ":" has been composed and parsed
C28_Witness ==
    /\ dpc = "parsed"
    /\ dProviderId # <<>>
    /\ Colons(dSourceId) >= 2
    /\ Colons(dId) >= 3
    /\ dParsed.sourceId = dSourceId

\* ---------------------------------------------------------------- C37
IdsOf(seq) == {getDocumentId(seq[i]) : i \in 1..Len(seq)}

OpsWithId(id) ==
    {k \in 1..Len(pPlan.operations) : getDocumentId(pPlan.operations[k].documentMetadata) = id}

\* C37: for a source list and a target list that each have pairwise
\* distinct DocumentIds the plan holds exactly one operation for each
\* DocumentId of the two lists together and none for any other id, so
\* summary.total is the number of distinct ids and no document is created
\* or updated and also deleted
C37_OneOperationPerDocumentId ==
    (ppc = "done" /\ NoDuplicateIds(pSource) /\ NoDuplicateIds(pTarget)) =>
        LET ids == IdsOf(pSource) \cup IdsOf(pTarget)
        IN /\ \A id \in ids : Cardinality(OpsWithId(id)) = 1
           /\ Len(pPlan.operations) = Cardinality(ids)
           /\ pPlan.summary.total = Cardinality(ids)
           /\ \A k1, k2 \in 1..Len(pPlan.operations) :
                (pPlan.operations[k1].type \in {"create", "update"}
                    /\ pPlan.operations[k2].type = "delete")
                => getDocumentId(pPlan.operations[k1].documentMetadata)
                       # getDocumentId(pPlan.operations[k2].documentMetadata)

\* a plan over a new, a changed and an orphaned document
C37_Witness ==
    /\ ppc = "done"
    /\ NoDuplicateIds(pSource) /\ NoDuplicateIds(pTarget)
    /\ pPlan.summary.total = 3
    /\ pPlan.summary.create = 1 /\ pPlan.summary.update = 1 /\ pPlan.summary.delete = 1
    /\ Cardinality(IdsOf(pSource) \cup IdsOf(pTarget)) = 3

\* ======================================================================
\* DifyProvider specification: updateDocumentFromFile and deleteDocument
\* called one at a time on a dataset that holds documents of two source
\* connectors. A request to the Dify API may fail at any point; the
\* dataset lists up to one page of documents and their details come in one
\* batch.
\* ======================================================================
\* null
NoDocument == Doc(<<>>, <<>>, "", 0)

\* findDifyDocumentIdBySourceId(sourceId): <<how the lookup went, the
\* document returned>>. A failed page request returns null, a failed
\* detail batch is skipped and the loop ends with null; otherwise the first
\* listed document whose source_id is sourceId is returned, whatever its
\* provider_id, and null when there is none.
findDifyDocumentIdBySourceId(store, sourceId) ==
    {<<"failed", NoDocument>>}
        \cup (IF WithSourceId(store, sourceId) = {}
              THEN {<<"absent", NoDocument>>}
              ELSE {<<"found", d>> : d \in WithSourceId(store, sourceId)})

\* what a call on the connector leaves behind
Outcome(lookup, outcome, store) == [lookup |-> lookup, outcome |-> outcome, store |-> store]

\* deleteDocument(documentId): a null lookup warns and returns; a found
\* document is deleted, and the call raises when the DELETE request fails
deleteDocument(store, documentId) ==
    LET sourceId == parseDocumentId(documentId).sourceId
    IN UNION {IF r[1] = "found"
              THEN {Outcome("found", "returned", StoreDelete(store, r[2])),
                    Outcome("found", "raised", store)}
              ELSE {Outcome(r[1], "returned", store)}
              : r \in findDifyDocumentIdBySourceId(store, sourceId)}

\* findDifyDocumentId(metadata): fetchDocumentsMetadata raises when a
\* request fails; when a listed document has the DocumentId the result is
\* that of findDifyDocumentIdBySourceId(metadata.sourceId), else null
findDifyDocumentId(store, metadata) ==
    IF StoreFinds(store, metadata)
    THEN findDifyDocumentIdBySourceId(store, metadata.sourceId)
    ELSE {<<"absent", NoDocument>>}

\* updateDocumentFromFile(metadata, filePath): raises when the listing
\* fails, when the lookup gives null and when the update request fails;
\* the document found takes the name, and the metadata too unless the
\* metadata request fails, which setDocumentMetadata only logs
updateDocumentFromFile(store, metadata) ==
    {Outcome("failed", "raised", store)}
        \cup UNION {IF r[1] = "found"
                    THEN {Outcome("found", "raised", store),
                          Outcome("found", "returned", StoreUpdate(store, r[2], metadata)),
                          Outcome("found", "returned",
                                  StoreUpdate(store, r[2], [r[2] EXCEPT !.title = metadata.title]))}
                    ELSE {Outcome(r[1], "raised", store)}
                    : r \in findDifyDocumentId(store, metadata)}

\* the source connectors that have documents in the dataset, and their ids
DifyProviderIds == {NotionId, <<"g">>}

DifySourceIds == {<<"1">>, <<"2">>}

\* the documents as the dataset holds them before the calls
DifyDocuments == {Doc(p, s, "T", 1) : p \in DifyProviderIds, s \in DifySourceIds}

\* the newer metadata an update carries for a document
Newer(d) == Doc(d.providerId, d.sourceId, "S", 2)

InitDify ==
    /\ PlannerIdle
    /\ DocIdOff
    /\ AppOff
    /\ driver = "Dify"
    /\ dryRun = FALSE
    /\ sourceProviderConfigs = <<>>
    /\ sourceListing = <<>>
    /\ hung = NoHang
    /\ \E held \in SUBSET DifyDocuments :
        targetStore = [t \in 1..NumTargets |-> IF t = 1 THEN SetToBag(held) ELSE EmptyBag]
    /\ difyCall = NoCall
    /\ epc = "off"
    /\ fetchI = 0
    /\ draining = FALSE
    /\ yielded = 0
    /\ allMetadata = <<>>
    /\ tIdx = 0
    /\ sourceMetadata = <<>>
    /\ targetMetadata = <<>>
    /\ targetPhase = [t \in 1..NumTargets |-> "untouched"]
    /\ eError = NoError
    /\ ReconcilerIdle
    /\ dirs = {}
    /\ files = {}
    /\ nextDir = 1
    /\ tempDir = 0

DifyUnchanged == UNCHANGED <<pvars, dvars, avars, cvars, evars, rvars, fvars>>

\* the call settles with one of its outcomes
DifySettle(method, documentId, r) ==
    /\ difyCall' = [method |-> method, documentId |-> documentId, lookup |-> r.lookup,
                    outcome |-> r.outcome, before |-> targetStore[1]]
    /\ targetStore' = [targetStore EXCEPT ![1] = r.store]
    /\ DifyUnchanged

\* await targetProvider.deleteDocument(getDocumentId(documentMetadata))
DifyDelete ==
    /\ driver = "Dify"
    /\ \E d \in DifyDocuments :
        \E r \in deleteDocument(targetStore[1], getDocumentId(d)) :
            DifySettle("deleteDocument", getDocumentId(d), r)

\* await targetProvider.updateDocumentFromFile(documentMetadata, tempFilePath)
DifyUpdate ==
    /\ driver = "Dify"
    /\ \E d \in DifyDocuments :
        \E r \in updateDocumentFromFile(targetStore[1], Newer(d)) :
            DifySettle("updateDocumentFromFile", getDocumentId(d), r)

NextDify ==
    \/ DifyDelete
    \/ DifyUpdate

SpecDify == InitDify /\ [][NextDify]_vars

\* ======================================================================
\* Properties of the DifyProvider specification (SpecDify)
\* ======================================================================
\* the call has settled
DifySettled == difyCall.outcome # "none"

\* C33: a deleteDocument(p:s) or an updateDocumentFromFile for (p, s) that
\* has settled left every document of the dataset with another DocumentId
\* as it was: as many copies of it as before the call, none more, none less
C33_DeleteAndUpdateScopedToDocumentId ==
    DifySettled =>
        \A d \in BagToSet(difyCall.before) \cup BagToSet(targetStore[1]) :
            getDocumentId(d) # difyCall.documentId =>
                CopiesIn(d, targetStore[1]) = CopiesIn(d, difyCall.before)

\* C40: a deleteDocument that returned normally left no document with the
\* DocumentId in the dataset, and a deleteDocument whose lookup of the
\* dataset's documents failed has raised
C40_DeleteReturnsOnlyWhenAbsent ==
    (difyCall.method = "deleteDocument" /\ DifySettled) =>
        /\ difyCall.outcome = "returned" =>
            \A d \in BagToSet(targetStore[1]) : getDocumentId(d) # difyCall.documentId
        /\ difyCall.lookup = "failed" => difyCall.outcome = "raised"

====
